---- MODULE Spec2Model ----
(***************************************************************************)
(* A model of websockets' threaded message assembler                       *)
(* (src/websockets/sync/messages.py, class Assembler) and of its frame     *)
(* codec (src/websockets/legacy/framing.py, Frame.read and Frame.write),   *)
(* and of the asyncio server (src/websockets/legacy/server.py): the        *)
(* handler task of each connection, the server's close task and the        *)
(* negotiation of subprotocol and extensions.                              *)
(*                                                                         *)
(* The Assembler object is the record asm, one field per attribute.  The   *)
(* mutex is not a field: every "with self.mutex" block of the source runs  *)
(* no blocking call, so each block is one atomic step, and the places      *)
(* where a method runs without the mutex (Event.wait, SimpleQueue.get, the *)
(* generator's yields) are the thread positions of pc.                     *)
(***************************************************************************)
EXTENDS Integers, Sequences, FiniteSets, TLC

VARIABLES
    asm,      \* the Assembler's attributes
    pc,       \* where each thread stands inside put / get / get_iter
    loc,      \* each thread's local variables (frame, timeout, completed, chunks)
    ret,      \* how each thread's last finished call ended
    nput,     \* the data frames put has accepted so far (bounds the run)
    cur,      \* history: the data frames accepted since the last completed message
    sent,     \* history: the completed messages, each the list of its frames
    fetched,  \* history: what get returned and what exhausted iterators yielded
    rd,       \* a call of Frame.read: its arguments and, once it ended, its result
    conn,     \* the connection frames are written to: mask and extensions
    wire,     \* the transport: the buffers its write callback was called with
    wrote,    \* history: the calls of Frame.write, in order
    srv,      \* the WebSocketServer: its asyncio server, connections, close task
    ws,       \* each WebSocketServerProtocol: its state and its handler task
    sub,      \* a call of select_subprotocol: its arguments and its result
    ext,      \* a call of process_extensions: its arguments and its result
    cli       \* a call of connect: its arguments, its socket, its ClientProtocol

assemblerVars == <<asm, pc, loc, ret, nput, cur, sent, fetched>>
framingVars == <<rd, conn, wire, wrote>>
serverVars == <<srv, ws>>
negotiationVars == <<sub, ext>>
clientVars == <<cli>>
vars == <<asm, pc, loc, ret, nput, cur, sent, fetched, rd, conn, wire, wrote, srv, ws,
          sub, ext, cli>>

\* what the steps of one part of the library leave alone
otherThanAssembler == <<framingVars, serverVars, negotiationVars, clientVars>>
otherThanFraming == <<assemblerVars, serverVars, negotiationVars, clientVars>>
otherThanServer == <<assemblerVars, framingVars, negotiationVars, clientVars>>
otherThanNegotiation == <<assemblerVars, framingVars, serverVars, clientVars>>
otherThanClient == <<assemblerVars, framingVars, serverVars, negotiationVars>>

---------------------------------------------------------------------------
(* Bounds and input alphabets. *)

\* data frames accepted by put in one run of Spec
MaxPuts == 3
\* the same for the runs with close(), with two consumers, with any frames
MaxPutsClose == 2
MaxPutsConsumers == 2
MaxPutsAny == 2
MaxPutsControl == 2
MaxPutsClosers == 2
MaxPutsFair == 2
MaxPutsAsserts == 1
MaxPutsProducers == 1
MaxPutsAbandon == 2

Producers == {"p1", "p2"}
Consumers == {"c1", "c2"}
Threads == Producers \cup Consumers

DataOpcodes == {"CONT", "TEXT", "BINARY"}
CtrlOpcodes == {"CLOSE", "PING", "PONG"}
Opcodes == DataOpcodes \cup CtrlOpcodes

\* Payloads: 'a', and the two bytes of U+00E9 one by one, so that a code point
\* can be split across frames and a lone half is invalid UTF-8.
Payloads == {<<97>>, <<195>>, <<169>>}

\* The frames put: every data frame over the payloads, and the control frames
\* (put does not look at a control frame's fin or data).
Frames == [opcode : DataOpcodes, fin : BOOLEAN, data : Payloads]
          \cup [opcode : CtrlOpcodes, fin : {TRUE}, data : {<<>>}]

---------------------------------------------------------------------------
(* Python values. *)

Bytes(v) == [t |-> "bytes", v |-> v]
Str(v) == [t |-> "str", v |-> v]
\* the None sentinel of chunks_queue
NoneVal == [t |-> "None", v |-> <<>>]

\* self.decoder: None, or a UTF8Decoder with the bytes it holds back
NoDecoder == [isNone |-> TRUE, buffer |-> <<>>]
UTF8Decoder == [isNone |-> FALSE, buffer |-> <<>>]

\* self.chunks_queue: None, or a SimpleQueue with its items
NoQueue == [isNone |-> TRUE, items |-> <<>>]
SimpleQueue == [isNone |-> FALSE, items |-> <<>>]

\* codecs.utf_8_decode(data, "strict", final) on one- and two-byte sequences
\* (the payload alphabet has no lead byte of a longer one): the code points
\* decoded, and the incomplete tail kept back when not final.
RECURSIVE utf_8_decode(_, _, _)
utf_8_decode(data, final, out) ==
    IF data = <<>> THEN [ok |-> TRUE, out |-> out, rest |-> <<>>]
    ELSE LET b == Head(data) IN
         IF b < 128 THEN utf_8_decode(Tail(data), final, Append(out, b))
         ELSE IF b \in 194..223 THEN
              IF Len(data) = 1
              THEN IF final THEN [ok |-> FALSE, out |-> out, rest |-> data]
                   ELSE [ok |-> TRUE, out |-> out, rest |-> data]
              ELSE IF data[2] \in 128..191
                   THEN utf_8_decode(Tail(Tail(data)), final,
                                     Append(out, (b - 192) * 64 + (data[2] - 128)))
                   ELSE [ok |-> FALSE, out |-> out, rest |-> data]
         ELSE [ok |-> FALSE, out |-> out, rest |-> data]

\* IncrementalDecoder.decode(input, final): decodes buffer + input and keeps
\* the undecoded tail; on an error the buffer is left as it was.
decode(decoder, input, final) ==
    LET r == utf_8_decode(decoder.buffer \o input, final, <<>>) IN
    IF r.ok THEN [ok |-> TRUE, data |-> Str(r.out),
                  decoder |-> [decoder EXCEPT !.buffer = r.rest]]
    ELSE [ok |-> FALSE, data |-> Str(<<>>), decoder |-> decoder]

RECURSIVE Concat(_)
Concat(ss) == IF ss = <<>> THEN <<>> ELSE Head(ss) \o Concat(Tail(ss))

\* joiner.join(self.chunks): joiner is b"" when decoder is None, else "";
\* joining a chunk of the other type raises TypeError.
join(decoder, chunks) ==
    LET t == IF decoder.isNone THEN "bytes" ELSE "str" IN
    IF \A i \in 1..Len(chunks) : chunks[i].t = t
    THEN [ok |-> TRUE, message |-> [t |-> t, v |-> Concat([i \in 1..Len(chunks) |-> chunks[i].v])]]
    ELSE [ok |-> FALSE, message |-> NoneVal]

---------------------------------------------------------------------------
(* Assembler.__init__ *)

AssemblerInit ==
    [message_complete |-> FALSE,
     message_fetched  |-> FALSE,
     get_in_progress  |-> FALSE,
     put_in_progress  |-> FALSE,
     decoder          |-> NoDecoder,
     chunks           |-> <<>>,
     chunks_queue     |-> NoQueue,
     closed           |-> FALSE]

Outcome(a, out) == [a |-> a, out |-> out, val |-> NoneVal]
OutcomeVal(a, out, val) == [a |-> a, out |-> out, val |-> val]

---------------------------------------------------------------------------
(* The mutex-protected blocks of the methods, as functions of the          *)
(* Assembler's state: the state the block leaves and how the block ends.   *)
(* A raise or a failed assert leaves the assignments made before it.       *)

\* Mutant of put_enter: put returns from a final frame without waiting for
\* message_fetched.
put_enter_no_wait(a, frame) ==
    IF a.closed THEN Outcome(a, "EOFError")
    ELSE IF a.put_in_progress THEN Outcome(a, "RuntimeError")
    ELSE IF frame.opcode \notin DataOpcodes THEN Outcome(a, "return")
    ELSE
    LET a1 == [a EXCEPT !.decoder = IF frame.opcode = "TEXT" THEN UTF8Decoder
                                    ELSE IF frame.opcode = "BINARY" THEN NoDecoder
                                    ELSE @]
        d == IF a1.decoder.isNone
             THEN [ok |-> TRUE, data |-> Bytes(frame.data), decoder |-> a1.decoder]
             ELSE decode(a1.decoder, frame.data, frame.fin)
        a2 == IF a1.chunks_queue.isNone
              THEN [a1 EXCEPT !.decoder = d.decoder, !.chunks = Append(@, d.data)]
              ELSE [a1 EXCEPT !.decoder = d.decoder,
                              !.chunks_queue.items = Append(@, d.data)]
        a3 == [a2 EXCEPT !.message_complete = TRUE,
                         !.chunks_queue.items = IF a2.chunks_queue.isNone THEN @
                                                ELSE Append(@, NoneVal)]
    IN  IF ~d.ok THEN Outcome(a1, "UnicodeDecodeError")
        ELSE IF ~frame.fin THEN Outcome(a2, "return")
        ELSE IF a2.message_complete THEN Outcome(a2, "AssertionError")
        ELSE Outcome(a3, "return")

\* Mutant of put_enter: the chunk goes to chunks also in streaming mode.
put_enter_never_streams(a, frame) ==
    IF a.closed THEN Outcome(a, "EOFError")
    ELSE IF a.put_in_progress THEN Outcome(a, "RuntimeError")
    ELSE IF frame.opcode \notin DataOpcodes THEN Outcome(a, "return")
    ELSE
    LET a1 == [a EXCEPT !.decoder = IF frame.opcode = "TEXT" THEN UTF8Decoder
                                    ELSE IF frame.opcode = "BINARY" THEN NoDecoder
                                    ELSE @]
        d == IF a1.decoder.isNone
             THEN [ok |-> TRUE, data |-> Bytes(frame.data), decoder |-> a1.decoder]
             ELSE decode(a1.decoder, frame.data, frame.fin)
        a2 == [a1 EXCEPT !.decoder = d.decoder, !.chunks = Append(@, d.data)]
        a3 == [a2 EXCEPT !.message_complete = TRUE,
                         !.chunks_queue.items = IF a2.chunks_queue.isNone THEN @
                                                ELSE Append(@, NoneVal)]
    IN  IF ~d.ok THEN Outcome(a1, "UnicodeDecodeError")
        ELSE IF ~frame.fin THEN Outcome(a2, "return")
        ELSE IF a2.message_complete THEN Outcome(a2, "AssertionError")
        ELSE IF a3.message_fetched THEN Outcome(a3, "AssertionError")
        ELSE Outcome([a3 EXCEPT !.put_in_progress = TRUE], "wait")

\* Mutant of put_enter: a CONT frame is refused when nothing shows a message
\* in progress (no decoder, nothing buffered).
put_enter_refuses_cont(a, frame) ==
    IF a.closed THEN Outcome(a, "EOFError")
    ELSE IF a.put_in_progress THEN Outcome(a, "RuntimeError")
    ELSE IF frame.opcode \notin DataOpcodes THEN Outcome(a, "return")
    ELSE IF frame.opcode = "CONT" /\ a.decoder.isNone /\ a.chunks = <<>>
    THEN Outcome(a, "RuntimeError")
    ELSE
    LET a1 == [a EXCEPT !.decoder = IF frame.opcode = "TEXT" THEN UTF8Decoder
                                    ELSE IF frame.opcode = "BINARY" THEN NoDecoder
                                    ELSE @]
        d == IF a1.decoder.isNone
             THEN [ok |-> TRUE, data |-> Bytes(frame.data), decoder |-> a1.decoder]
             ELSE decode(a1.decoder, frame.data, frame.fin)
        a2 == IF a1.chunks_queue.isNone
              THEN [a1 EXCEPT !.decoder = d.decoder, !.chunks = Append(@, d.data)]
              ELSE [a1 EXCEPT !.decoder = d.decoder,
                              !.chunks_queue.items = Append(@, d.data)]
        a3 == [a2 EXCEPT !.message_complete = TRUE,
                         !.chunks_queue.items = IF a2.chunks_queue.isNone THEN @
                                                ELSE Append(@, NoneVal)]
    IN  IF ~d.ok THEN Outcome(a1, "UnicodeDecodeError")
        ELSE IF ~frame.fin THEN Outcome(a2, "return")
        ELSE IF a2.message_complete THEN Outcome(a2, "AssertionError")
        ELSE IF a3.message_fetched THEN Outcome(a3, "AssertionError")
        ELSE Outcome([a3 EXCEPT !.put_in_progress = TRUE], "wait")

\* Mutant of put_enter: a TEXT or BINARY frame is refused while chunks of a
\* message are buffered.
put_enter_refuses_opcode(a, frame) ==
    IF a.closed THEN Outcome(a, "EOFError")
    ELSE IF a.put_in_progress THEN Outcome(a, "RuntimeError")
    ELSE IF frame.opcode \notin DataOpcodes THEN Outcome(a, "return")
    ELSE IF frame.opcode \in {"TEXT", "BINARY"}
            /\ (a.chunks # <<>> \/ a.chunks_queue.items # <<>>)
    THEN Outcome(a, "RuntimeError")
    ELSE
    LET a1 == [a EXCEPT !.decoder = IF frame.opcode = "TEXT" THEN UTF8Decoder
                                    ELSE IF frame.opcode = "BINARY" THEN NoDecoder
                                    ELSE @]
        d == IF a1.decoder.isNone
             THEN [ok |-> TRUE, data |-> Bytes(frame.data), decoder |-> a1.decoder]
             ELSE decode(a1.decoder, frame.data, frame.fin)
        a2 == IF a1.chunks_queue.isNone
              THEN [a1 EXCEPT !.decoder = d.decoder, !.chunks = Append(@, d.data)]
              ELSE [a1 EXCEPT !.decoder = d.decoder,
                              !.chunks_queue.items = Append(@, d.data)]
        a3 == [a2 EXCEPT !.message_complete = TRUE,
                         !.chunks_queue.items = IF a2.chunks_queue.isNone THEN @
                                                ELSE Append(@, NoneVal)]
    IN  IF ~d.ok THEN Outcome(a1, "UnicodeDecodeError")
        ELSE IF ~frame.fin THEN Outcome(a2, "return")
        ELSE IF a2.message_complete THEN Outcome(a2, "AssertionError")
        ELSE IF a3.message_fetched THEN Outcome(a3, "AssertionError")
        ELSE Outcome([a3 EXCEPT !.put_in_progress = TRUE], "wait")

\* Mutant of put_enter: a control frame resets the decoder, as a BINARY frame
\* does, before it is ignored.
put_enter_control_resets(a, frame) ==
    IF a.closed THEN Outcome(a, "EOFError")
    ELSE IF a.put_in_progress THEN Outcome(a, "RuntimeError")
    ELSE IF frame.opcode \notin DataOpcodes
    THEN Outcome([a EXCEPT !.decoder = NoDecoder], "return")
    ELSE
    LET a1 == [a EXCEPT !.decoder = IF frame.opcode = "TEXT" THEN UTF8Decoder
                                    ELSE IF frame.opcode = "BINARY" THEN NoDecoder
                                    ELSE @]
        d == IF a1.decoder.isNone
             THEN [ok |-> TRUE, data |-> Bytes(frame.data), decoder |-> a1.decoder]
             ELSE decode(a1.decoder, frame.data, frame.fin)
        a2 == IF a1.chunks_queue.isNone
              THEN [a1 EXCEPT !.decoder = d.decoder, !.chunks = Append(@, d.data)]
              ELSE [a1 EXCEPT !.decoder = d.decoder,
                              !.chunks_queue.items = Append(@, d.data)]
        a3 == [a2 EXCEPT !.message_complete = TRUE,
                         !.chunks_queue.items = IF a2.chunks_queue.isNone THEN @
                                                ELSE Append(@, NoneVal)]
    IN  IF ~d.ok THEN Outcome(a1, "UnicodeDecodeError")
        ELSE IF ~frame.fin THEN Outcome(a2, "return")
        ELSE IF a2.message_complete THEN Outcome(a2, "AssertionError")
        ELSE IF a3.message_fetched THEN Outcome(a3, "AssertionError")
        ELSE Outcome([a3 EXCEPT !.put_in_progress = TRUE], "wait")

\* Mutant of put_enter: data that cannot be decoded is replaced by an empty
\* chunk instead of raising.
put_enter_lenient(a, frame) ==
    IF a.closed THEN Outcome(a, "EOFError")
    ELSE IF a.put_in_progress THEN Outcome(a, "RuntimeError")
    ELSE IF frame.opcode \notin DataOpcodes THEN Outcome(a, "return")
    ELSE
    LET a1 == [a EXCEPT !.decoder = IF frame.opcode = "TEXT" THEN UTF8Decoder
                                    ELSE IF frame.opcode = "BINARY" THEN NoDecoder
                                    ELSE @]
        d == IF a1.decoder.isNone
             THEN [ok |-> TRUE, data |-> Bytes(frame.data), decoder |-> a1.decoder]
             ELSE decode(a1.decoder, frame.data, frame.fin)
        a2 == IF a1.chunks_queue.isNone
              THEN [a1 EXCEPT !.decoder = d.decoder, !.chunks = Append(@, d.data)]
              ELSE [a1 EXCEPT !.decoder = d.decoder,
                              !.chunks_queue.items = Append(@, d.data)]
        a3 == [a2 EXCEPT !.message_complete = TRUE,
                         !.chunks_queue.items = IF a2.chunks_queue.isNone THEN @
                                                ELSE Append(@, NoneVal)]
    IN  IF ~frame.fin THEN Outcome(a2, "return")
        ELSE IF a2.message_complete THEN Outcome(a2, "AssertionError")
        ELSE IF a3.message_fetched THEN Outcome(a3, "AssertionError")
        ELSE Outcome([a3 EXCEPT !.put_in_progress = TRUE], "wait")

\* Mutant of put_enter: a put that is in progress is not looked at.
put_enter_concurrent(a, frame) ==
    IF a.closed THEN Outcome(a, "EOFError")
    ELSE IF frame.opcode \notin DataOpcodes THEN Outcome(a, "return")
    ELSE
    LET a1 == [a EXCEPT !.decoder = IF frame.opcode = "TEXT" THEN UTF8Decoder
                                    ELSE IF frame.opcode = "BINARY" THEN NoDecoder
                                    ELSE @]
        d == IF a1.decoder.isNone
             THEN [ok |-> TRUE, data |-> Bytes(frame.data), decoder |-> a1.decoder]
             ELSE decode(a1.decoder, frame.data, frame.fin)
        a2 == IF a1.chunks_queue.isNone
              THEN [a1 EXCEPT !.decoder = d.decoder, !.chunks = Append(@, d.data)]
              ELSE [a1 EXCEPT !.decoder = d.decoder,
                              !.chunks_queue.items = Append(@, d.data)]
        a3 == [a2 EXCEPT !.message_complete = TRUE,
                         !.chunks_queue.items = IF a2.chunks_queue.isNone THEN @
                                                ELSE Append(@, NoneVal)]
    IN  IF ~d.ok THEN Outcome(a1, "UnicodeDecodeError")
        ELSE IF ~frame.fin THEN Outcome(a2, "return")
        ELSE IF a2.message_complete THEN Outcome(a2, "AssertionError")
        ELSE IF a3.message_fetched THEN Outcome(a3, "AssertionError")
        ELSE Outcome([a3 EXCEPT !.put_in_progress = TRUE], "wait")

\* put, first block (lines 184-225): out is "wait" when put goes on to wait
\* for message_fetched, "return" when it returns, else the exception raised.
put_enter(a, frame) ==
    IF a.closed THEN Outcome(a, "EOFError")
    ELSE IF a.put_in_progress THEN Outcome(a, "RuntimeError")
    ELSE IF frame.opcode \notin DataOpcodes THEN Outcome(a, "return")
    ELSE
    LET a1 == [a EXCEPT !.decoder = IF frame.opcode = "TEXT" THEN UTF8Decoder
                                    ELSE IF frame.opcode = "BINARY" THEN NoDecoder
                                    ELSE @]
        d == IF a1.decoder.isNone
             THEN [ok |-> TRUE, data |-> Bytes(frame.data), decoder |-> a1.decoder]
             ELSE decode(a1.decoder, frame.data, frame.fin)
        a2 == IF a1.chunks_queue.isNone
              THEN [a1 EXCEPT !.decoder = d.decoder, !.chunks = Append(@, d.data)]
              ELSE [a1 EXCEPT !.decoder = d.decoder,
                              !.chunks_queue.items = Append(@, d.data)]
        a3 == [a2 EXCEPT !.message_complete = TRUE,
                         !.chunks_queue.items = IF a2.chunks_queue.isNone THEN @
                                                ELSE Append(@, NoneVal)]
    IN  IF ~d.ok THEN Outcome(a1, "UnicodeDecodeError")
        ELSE IF ~frame.fin THEN Outcome(a2, "return")
        ELSE IF a2.message_complete THEN Outcome(a2, "AssertionError")
        ELSE IF a3.message_fetched THEN Outcome(a3, "AssertionError")
        ELSE Outcome([a3 EXCEPT !.put_in_progress = TRUE], "wait")

\* put, last block (lines 230-239), after message_fetched.wait() returned
put_exit(a) ==
    LET a1 == [a EXCEPT !.put_in_progress = FALSE]
        a2 == [a1 EXCEPT !.message_fetched = FALSE]
    IN  IF ~a1.message_fetched THEN Outcome(a1, "AssertionError")
        ELSE IF a2.closed THEN Outcome(a2, "EOFError")
        ELSE Outcome([a2 EXCEPT !.decoder = NoDecoder], "return")

\* Mutant of get_enter: closed is not checked.
get_enter_ignores_closed(a) ==
    IF a.get_in_progress THEN Outcome(a, "RuntimeError")
    ELSE Outcome([a EXCEPT !.get_in_progress = TRUE], "wait")

\* get, first block (lines 75-82)
get_enter(a) ==
    IF a.closed THEN Outcome(a, "EOFError")
    ELSE IF a.get_in_progress THEN Outcome(a, "RuntimeError")
    ELSE Outcome([a EXCEPT !.get_in_progress = TRUE], "wait")

\* Mutant of get_exit: the line "self.chunks = []" is missing.
get_exit_keeps_chunks(a, completed) ==
    LET a1 == [a EXCEPT !.get_in_progress = FALSE]
        a2 == [a1 EXCEPT !.message_complete = FALSE]
        j  == join(a2.decoder, a2.chunks)
        a3 == [a2 EXCEPT !.message_fetched = TRUE]
    IN  IF ~completed THEN Outcome(a1, "None")
        ELSE IF a1.closed THEN Outcome(a1, "EOFError")
        ELSE IF ~a1.message_complete THEN Outcome(a1, "AssertionError")
        ELSE IF ~j.ok THEN Outcome(a2, "TypeError")
        ELSE IF a2.message_fetched THEN Outcome(a2, "AssertionError")
        ELSE IF ~a3.chunks_queue.isNone THEN Outcome(a3, "AssertionError")
        ELSE OutcomeVal(a3, "message", j.message)

\* Mutant of get_exit: message_fetched is set before completed is looked at,
\* so a get that timed out signals a fetch.
get_exit_signals_timeout(a, completed) ==
    LET a1 == [a EXCEPT !.get_in_progress = FALSE, !.message_fetched = TRUE]
        a2 == [a1 EXCEPT !.message_complete = FALSE]
        j  == join(a2.decoder, a2.chunks)
        a4 == [a2 EXCEPT !.chunks = <<>>]
    IN  IF ~completed THEN Outcome(a1, "None")
        ELSE IF a1.closed THEN Outcome(a1, "EOFError")
        ELSE IF ~a1.message_complete THEN Outcome(a1, "AssertionError")
        ELSE IF ~j.ok THEN Outcome(a2, "TypeError")
        ELSE IF ~a4.chunks_queue.isNone THEN Outcome(a4, "AssertionError")
        ELSE OutcomeVal(a4, "message", j.message)

\* Mutant of get_exit: message_complete is cleared before completed is looked
\* at.
get_exit_clears_on_timeout(a, completed) ==
    LET a1 == [a EXCEPT !.get_in_progress = FALSE, !.message_complete = FALSE]
        j  == join(a1.decoder, a1.chunks)
        a3 == [a1 EXCEPT !.message_fetched = TRUE]
        a4 == [a3 EXCEPT !.chunks = <<>>]
    IN  IF ~completed THEN Outcome(a1, "None")
        ELSE IF a1.closed THEN Outcome(a1, "EOFError")
        ELSE IF ~j.ok THEN Outcome(a1, "TypeError")
        ELSE IF a1.message_fetched THEN Outcome(a1, "AssertionError")
        ELSE IF ~a4.chunks_queue.isNone THEN Outcome(a4, "AssertionError")
        ELSE OutcomeVal(a4, "message", j.message)

\* Mutant of get_exit: message_fetched is not set.
get_exit_no_fetched(a, completed) ==
    LET a1 == [a EXCEPT !.get_in_progress = FALSE]
        a2 == [a1 EXCEPT !.message_complete = FALSE]
        j  == join(a2.decoder, a2.chunks)
        a4 == [a2 EXCEPT !.chunks = <<>>]
    IN  IF ~completed THEN Outcome(a1, "None")
        ELSE IF a1.closed THEN Outcome(a1, "EOFError")
        ELSE IF ~a1.message_complete THEN Outcome(a1, "AssertionError")
        ELSE IF ~j.ok THEN Outcome(a2, "TypeError")
        ELSE IF a2.message_fetched THEN Outcome(a2, "AssertionError")
        ELSE IF ~a4.chunks_queue.isNone THEN Outcome(a4, "AssertionError")
        ELSE OutcomeVal(a4, "message", j.message)

\* get, last block (lines 89-112); completed is what message_complete.wait
\* returned
get_exit(a, completed) ==
    LET a1 == [a EXCEPT !.get_in_progress = FALSE]
        a2 == [a1 EXCEPT !.message_complete = FALSE]
        j  == join(a2.decoder, a2.chunks)
        a3 == [a2 EXCEPT !.message_fetched = TRUE]
        a4 == [a3 EXCEPT !.chunks = <<>>]
    IN  IF ~completed THEN Outcome(a1, "None")
        ELSE IF a1.closed THEN Outcome(a1, "EOFError")
        ELSE IF ~a1.message_complete THEN Outcome(a1, "AssertionError")
        ELSE IF ~j.ok THEN Outcome(a2, "TypeError")
        ELSE IF a2.message_fetched THEN Outcome(a2, "AssertionError")
        ELSE IF ~a4.chunks_queue.isNone THEN Outcome(a4, "AssertionError")
        ELSE OutcomeVal(a4, "message", j.message)

\* Mutant of get_iter_enter: get_in_progress is checked after the switch to
\* streaming.
get_iter_enter_late_check(a) ==
    LET a1 == [a EXCEPT !.chunks = <<>>,
                        !.chunks_queue = [SimpleQueue EXCEPT !.items =
                            IF a.message_complete THEN <<NoneVal>> ELSE <<>>]]
    IN  IF a.closed THEN Outcome(a, "EOFError")
        ELSE IF a.get_in_progress THEN Outcome(a1, "RuntimeError")
        ELSE OutcomeVal([a1 EXCEPT !.get_in_progress = TRUE], "iterate", a.chunks)

\* Mutant of get_iter_enter: the chunks already buffered are dropped.
get_iter_enter_drops_buffered(a) ==
    IF a.closed THEN Outcome(a, "EOFError")
    ELSE IF a.get_in_progress THEN Outcome(a, "RuntimeError")
    ELSE OutcomeVal(
           [a EXCEPT !.chunks = <<>>,
                     !.chunks_queue = [SimpleQueue EXCEPT !.items =
                         IF a.message_complete THEN <<NoneVal>> ELSE <<>>],
                     !.get_in_progress = TRUE],
           "iterate", <<>>)

\* get_iter, first block (lines 125-144), run by the iterator's first step;
\* val carries the local list chunks as a sequence of chunks
get_iter_enter(a) ==
    IF a.closed THEN Outcome(a, "EOFError")
    ELSE IF a.get_in_progress THEN Outcome(a, "RuntimeError")
    ELSE OutcomeVal(
           [a EXCEPT !.chunks = <<>>,
                     !.chunks_queue = [SimpleQueue EXCEPT !.items =
                         IF a.message_complete THEN <<NoneVal>> ELSE <<>>],
                     !.get_in_progress = TRUE],
           "iterate", a.chunks)

\* Mutant of get_iter_exit: message_fetched is not set.
get_iter_exit_no_fetched(a) ==
    LET a1 == [a EXCEPT !.get_in_progress = FALSE]
        a2 == [a1 EXCEPT !.message_complete = FALSE]
    IN  IF ~a1.message_complete THEN Outcome(a1, "AssertionError")
        ELSE IF a2.closed THEN Outcome(a2, "EOFError")
        ELSE IF a2.message_fetched THEN Outcome(a2, "AssertionError")
        ELSE IF a2.chunks # <<>> THEN Outcome(a2, "AssertionError")
        ELSE Outcome([a2 EXCEPT !.chunks_queue = NoQueue], "StopIteration")

\* get_iter, last block (lines 154-167), after the None sentinel was read
get_iter_exit(a) ==
    LET a1 == [a EXCEPT !.get_in_progress = FALSE]
        a2 == [a1 EXCEPT !.message_complete = FALSE]
        a3 == [a2 EXCEPT !.message_fetched = TRUE]
    IN  IF ~a1.message_complete THEN Outcome(a1, "AssertionError")
        ELSE IF a2.closed THEN Outcome(a2, "EOFError")
        ELSE IF a2.message_fetched THEN Outcome(a2, "AssertionError")
        ELSE IF a3.chunks # <<>> THEN Outcome(a3, "AssertionError")
        ELSE Outcome([a3 EXCEPT !.chunks_queue = NoQueue], "StopIteration")

\* Mutant of close: a waiting put is not woken.
close_leaves_put(a) ==
    IF a.closed THEN a
    ELSE
    LET a1 == [a EXCEPT !.closed = TRUE]
    IN  IF a1.get_in_progress
        THEN [a1 EXCEPT !.message_complete = TRUE,
                        !.chunks_queue.items = IF a1.chunks_queue.isNone THEN @
                                               ELSE Append(@, NoneVal)]
        ELSE a1

\* Mutant of close: get_iter is unblocked without message_complete being set.
close_without_complete(a) ==
    IF a.closed THEN a
    ELSE
    LET a1 == [a EXCEPT !.closed = TRUE]
        a2 == IF a1.get_in_progress
              THEN [a1 EXCEPT !.chunks_queue.items = IF a1.chunks_queue.isNone THEN @
                                                     ELSE Append(@, NoneVal)]
              ELSE a1
    IN  IF a2.put_in_progress THEN [a2 EXCEPT !.message_fetched = TRUE] ELSE a2

\* Mutant of close: a closed assembler is closed again.
close_again(a) ==
    LET a1 == [a EXCEPT !.closed = TRUE]
        a2 == IF a1.get_in_progress
              THEN [a1 EXCEPT !.message_complete = TRUE,
                              !.chunks_queue.items = IF a1.chunks_queue.isNone THEN @
                                                     ELSE Append(@, NoneVal)]
              ELSE a1
    IN  IF a2.put_in_progress THEN [a2 EXCEPT !.message_fetched = TRUE] ELSE a2

\* close (lines 249-263)
close(a) ==
    IF a.closed THEN a
    ELSE
    LET a1 == [a EXCEPT !.closed = TRUE]
        a2 == IF a1.get_in_progress
              THEN [a1 EXCEPT !.message_complete = TRUE,
                              !.chunks_queue.items = IF a1.chunks_queue.isNone THEN @
                                                     ELSE Append(@, NoneVal)]
              ELSE a1
    IN  IF a2.put_in_progress THEN [a2 EXCEPT !.message_fetched = TRUE] ELSE a2

---------------------------------------------------------------------------
(* Threads calling the methods. *)

NoFrame == [opcode |-> "CONT", fin |-> FALSE, data |-> <<>>]
NoLocals == [frame |-> NoFrame, timeout |-> FALSE, chunks |-> <<>>, yielded |-> <<>>]
NoCall == [op |-> "none", out |-> "none"]
Returned(op, r) == [op |-> op, out |-> r.out]

Exceptions == {"EOFError", "RuntimeError", "UnicodeDecodeError", "AssertionError",
               "TypeError"}

\* A frame in the history, with whether put added its chunk (ok is false when
\* decoding its data failed).
Put_(frame, ok) ==
    [opcode |-> frame.opcode, fin |-> frame.fin, data |-> frame.data, ok |-> ok]

\* The frames put so far hold a message in progress: a TEXT or BINARY frame
\* was put since the last fin=true data frame.
InProgress ==
    \E i \in 1..Len(cur) :
        /\ cur[i].opcode \in {"TEXT", "BINARY"}
        /\ \A j \in i..Len(cur) : ~cur[j].fin

\* A stream that respects the protocol: TEXT or BINARY starts a message, CONT
\* continues it, control frames come anywhere.
WellFormed(frame) ==
    \/ frame.opcode \in CtrlOpcodes
    \/ frame.opcode \in {"TEXT", "BINARY"} /\ ~InProgress
    \/ frame.opcode = "CONT" /\ InProgress

\* No call of Frame.read, nothing written.
NoRead == [called |-> FALSE]
Senders == {"s1", "s2"}

InitAssembler ==
    /\ asm = AssemblerInit
    /\ pc = [t \in Threads |-> "idle"]
    /\ loc = [t \in Threads |-> NoLocals]
    /\ ret = [t \in Threads |-> NoCall]
    /\ nput = 0
    /\ cur = <<>>
    /\ sent = <<>>
    /\ fetched = <<>>

\* a connection of the server side with no extension
NoConn == [mask |-> FALSE, extensions |-> <<>>]

InitFraming ==
    /\ rd = NoRead
    /\ conn = NoConn
    /\ wire = <<>>
    /\ wrote = <<>>

\* the connections a server accepts in one run
Conns == {"k1", "k2"}

\* no exception
NoExc == [kind |-> "none", status |-> 0, body |-> ""]

\* process_request returning None, and before it returned
NoResponse == [none |-> TRUE, status |-> 0, body |-> ""]

\* A WebSocketServerProtocol before connection_made: the state is CONNECTING
\* and nothing was written. at is where its handler task stands; responses
\* and bodies are the statuses and the bodies write_http_response was called
\* with, and close_frames the codes of the close frames sent. History:
\* request is what the validation of the request found, process_request how the
\* call of process_request ended, early what it returned, checked the state
\* of the asyncio server when handshake asked is_serving(), raised what
\* handshake raised, ws_handler the calls of ws_handler, closes the calls of
\* close() by the handler, failed the codes fail_connection was called with,
\* exit the path the handler left by, handler_task whether the connection was
\* registered when its handler task was created.
NewProtocol ==
    [at |-> "unmade", state |-> "CONNECTING", transport |-> "open",
     responses |-> <<>>, bodies |-> <<>>, close_frames |-> <<>>,
     request |-> "not validated", process_request |-> "pending",
     early |-> NoResponse, checked |-> "unchecked",
     raised |-> NoExc, ws_handler |-> 0, closes |-> 0, failed |-> <<>>,
     exit |-> "running", handler_task |-> "None"]

\* A WebSocketServer wrapped around a serving asyncio server, before any
\* connection and any call of close; py_lt_38 tells whether CancelledError is
\* an Exception for the interpreter. set_results counts the calls of
\* closed_waiter.set_result and wait_closed is where a caller of wait_closed
\* stands. History: close_calls and server_closes count the calls of close and
\* of the asyncio server's close, close_tasks the tasks created for _close,
\* asked is the connections close(1001) was called on, registers and
\* unregisters count the calls of register and unregister for each connection,
\* key_errors is the connections set.remove did not find.
NewServer(py_lt_38) ==
    [serving |-> TRUE, websockets |-> {}, close_task |-> "None",
     close_calls |-> 0, close_tasks |-> 0, server_closes |-> 0, awaited |-> {},
     asked |-> {}, set_results |-> 0, wait_closed |-> "None",
     py_lt_38 |-> py_lt_38, registers |-> [k \in Conns |-> 0],
     unregisters |-> [k \in Conns |-> 0], key_errors |-> {}]

InitServer ==
    /\ srv = NewServer(FALSE)
    /\ ws = [k \in Conns |-> NewProtocol]

\* no call of select_subprotocol, none of process_extensions
NotCalled == [called |-> FALSE]

InitNegotiation ==
    /\ sub = NotCalled
    /\ ext = NotCalled

\* connect was not called
NoConnect == [at |-> "not called"]

InitClient == cli = NoConnect

Init == InitAssembler /\ InitFraming /\ InitServer /\ InitNegotiation /\ InitClient

\* Thread p calls put(frame) and runs its first block; op is the name under
\* which ret records the call.
PutCallAs(p, frame, op) ==
    /\ pc[p] = "idle"
    /\ LET r == put_enter(asm, frame)
           accepted == /\ ~asm.closed /\ ~asm.put_in_progress
                       /\ frame.opcode \in DataOpcodes
           completes == accepted /\ ~asm.message_complete /\ r.a.message_complete
       IN /\ asm' = r.a
          /\ nput' = IF accepted THEN nput + 1 ELSE nput
          /\ cur' = IF ~accepted THEN cur
                    ELSE IF completes THEN <<>>
                    ELSE Append(cur, Put_(frame, r.out # "UnicodeDecodeError"))
          /\ sent' = IF completes THEN Append(sent, Append(cur, Put_(frame, TRUE)))
                     ELSE sent
          /\ IF r.out = "wait"
             THEN /\ pc' = [pc EXCEPT ![p] = "put_wait"]
                  /\ loc' = [loc EXCEPT ![p].frame = frame]
                  /\ ret' = ret
             ELSE /\ pc' = pc
                  /\ loc' = loc
                  /\ ret' = [ret EXCEPT ![p] = Returned(op, r)]
    /\ UNCHANGED fetched
    /\ UNCHANGED otherThanAssembler

PutCall(p, frame) == PutCallAs(p, frame, "put")

\* The library's reader thread: it puts a stream that respects the protocol
\* and stops at the first put that raises.
\* At most max data frames are put in one run.
Put(p, max) ==
    /\ ret[p].out \notin Exceptions
    /\ \E frame \in Frames :
          /\ WellFormed(frame)
          /\ frame.opcode \in DataOpcodes => nput < max
          /\ PutCall(p, frame)

\* Any caller of put: no assumption on the frames, nor on what it does after
\* a put that raised.
PutAny(p, max) ==
    \E frame \in Frames :
        /\ frame.opcode \in DataOpcodes => nput < max
        /\ PutCall(p, frame)

\* The reader thread again, with its puts of control frames recorded in ret
\* under the name put_control.
PutLogged(p, max) ==
    /\ ret[p].out \notin Exceptions
    /\ \E frame \in Frames :
          /\ WellFormed(frame)
          /\ frame.opcode \in DataOpcodes => nput < max
          /\ PutCallAs(p, frame, IF frame.opcode \in CtrlOpcodes
                                 THEN "put_control" ELSE "put")

\* message_fetched.wait() returns in p, which then runs put's last block.
\* (The event stays set until this block clears it, so the wait's return and
\* the block are one step.)
PutWake(p) ==
    /\ pc[p] = "put_wait"
    /\ asm.message_fetched
    /\ LET r == put_exit(asm)
       IN /\ asm' = r.a
          /\ ret' = [ret EXCEPT ![p] = Returned("put", r)]
    /\ pc' = [pc EXCEPT ![p] = "idle"]
    /\ loc' = [loc EXCEPT ![p] = NoLocals]
    /\ UNCHANGED <<nput, cur, sent, fetched>>
    /\ UNCHANGED otherThanAssembler

\* Thread c calls get(timeout) and runs its first block; timeout says
\* whether a timeout was given.
Get(c) ==
    /\ pc[c] = "idle"
    /\ \E timeout \in BOOLEAN :
        LET r == get_enter(asm)
        IN /\ asm' = r.a
           /\ IF r.out = "wait"
              THEN /\ pc' = [pc EXCEPT ![c] = "get_wait"]
                   /\ loc' = [loc EXCEPT ![c].timeout = timeout]
                   /\ ret' = ret
              ELSE /\ pc' = pc
                   /\ loc' = loc
                   /\ ret' = [ret EXCEPT ![c] = Returned("get", r)]
    /\ UNCHANGED <<nput, cur, sent, fetched>>
    /\ UNCHANGED otherThanAssembler

\* message_complete.wait(timeout) returns True in c, which then runs get's
\* last block. (Only this block clears the event while get_in_progress is
\* set, so the wait's return and the block are one step.)
GetWake(c) ==
    /\ pc[c] = "get_wait"
    /\ asm.message_complete
    /\ LET r == get_exit(asm, TRUE)
       IN /\ asm' = r.a
          /\ ret' = [ret EXCEPT ![c] = Returned("get", r)]
          /\ fetched' = IF r.out = "message"
                        THEN Append(fetched, [by |-> "get", val |-> r.val, chunks |-> <<>>])
                        ELSE fetched
    /\ pc' = [pc EXCEPT ![c] = "idle"]
    /\ loc' = [loc EXCEPT ![c] = NoLocals]
    /\ UNCHANGED <<nput, cur, sent>>
    /\ UNCHANGED otherThanAssembler

\* message_complete.wait(timeout) times out in c: it returns False, and c has
\* not taken the mutex again yet.
GetTimeout(c) ==
    /\ pc[c] = "get_wait"
    /\ loc[c].timeout
    /\ ~asm.message_complete
    /\ pc' = [pc EXCEPT ![c] = "get_timedout"]
    /\ UNCHANGED <<asm, loc, ret, nput, cur, sent, fetched>>
    /\ UNCHANGED otherThanAssembler

\* c runs get's last block with completed = False.
GetTimedOut(c) ==
    /\ pc[c] = "get_timedout"
    /\ LET r == get_exit(asm, FALSE)
       IN /\ asm' = r.a
          /\ ret' = [ret EXCEPT ![c] = Returned("get", r)]
    /\ pc' = [pc EXCEPT ![c] = "idle"]
    /\ loc' = [loc EXCEPT ![c] = NoLocals]
    /\ UNCHANGED <<nput, cur, sent, fetched>>
    /\ UNCHANGED otherThanAssembler

\* c takes the first step of a new get_iter() iterator: the first block.
GetIter(c) ==
    /\ pc[c] = "idle"
    /\ LET r == get_iter_enter(asm)
       IN /\ asm' = r.a
          /\ IF r.out = "iterate"
             THEN /\ pc' = [pc EXCEPT ![c] = "iter"]
                  /\ loc' = [loc EXCEPT ![c].chunks = r.val]
                  /\ ret' = ret
             ELSE /\ pc' = pc
                  /\ loc' = loc
                  /\ ret' = [ret EXCEPT ![c] = Returned("get_iter", r)]
    /\ UNCHANGED <<nput, cur, sent, fetched>>
    /\ UNCHANGED otherThanAssembler

\* The iterator yields the next chunk of its local list (yield from chunks).
IterLocal(c) ==
    /\ pc[c] = "iter"
    /\ loc[c].chunks # <<>>
    /\ loc' = [loc EXCEPT ![c].chunks = Tail(@),
                          ![c].yielded = Append(@, Head(loc[c].chunks))]
    /\ UNCHANGED <<asm, pc, ret, nput, cur, sent, fetched>>
    /\ UNCHANGED otherThanAssembler

\* chunks_queue.get() returns in c: a chunk, which the iterator yields, or
\* the None sentinel, which ends the loop.
IterQueue(c) ==
    /\ pc[c] = "iter"
    /\ loc[c].chunks = <<>>
    /\ ~asm.chunks_queue.isNone
    /\ asm.chunks_queue.items # <<>>
    /\ LET chunk == Head(asm.chunks_queue.items)
       IN /\ asm' = [asm EXCEPT !.chunks_queue.items = Tail(@)]
          /\ IF chunk = NoneVal
             THEN /\ pc' = [pc EXCEPT ![c] = "iter_end"]
                  /\ loc' = loc
             ELSE /\ pc' = pc
                  /\ loc' = [loc EXCEPT ![c].yielded = Append(@, chunk)]
    /\ UNCHANGED <<ret, nput, cur, sent, fetched>>
    /\ UNCHANGED otherThanAssembler

\* c runs get_iter's last block; the iterator is exhausted or raises.
IterEnd(c) ==
    /\ pc[c] = "iter_end"
    /\ LET r == get_iter_exit(asm)
       IN /\ asm' = r.a
          /\ ret' = [ret EXCEPT ![c] = Returned("get_iter", r)]
          /\ fetched' = IF r.out = "StopIteration"
                        THEN Append(fetched, [by |-> "get_iter", val |-> NoneVal,
                                              chunks |-> loc[c].yielded])
                        ELSE fetched
    /\ pc' = [pc EXCEPT ![c] = "idle"]
    /\ loc' = [loc EXCEPT ![c] = NoLocals]
    /\ UNCHANGED <<nput, cur, sent>>
    /\ UNCHANGED otherThanAssembler

\* The iterator of c would run get_iter's last block when it is dropped, as
\* if the block were in a finally clause.
Abandon_runs_last_block(c) ==
    /\ pc[c] = "iter"
    /\ loc[c].yielded # <<>>
    /\ asm' = get_iter_exit(asm).a
    /\ pc' = [pc EXCEPT ![c] = "idle"]
    /\ UNCHANGED <<loc, ret, nput, cur, sent, fetched>>
    /\ UNCHANGED otherThanAssembler

\* c stops iterating: the iterator is suspended at a yield (it has yielded
\* a chunk) and is never resumed. Whether the generator object is kept,
\* closed or collected, no statement after the yield runs: the last block is
\* not in a finally clause. The locals of the iterator stay as they were.
Abandon(c) ==
    /\ pc[c] = "iter"
    /\ loc[c].yielded # <<>>
    /\ pc' = [pc EXCEPT ![c] = "idle"]
    /\ UNCHANGED <<asm, loc, ret, nput, cur, sent, fetched>>
    /\ UNCHANGED otherThanAssembler

\* Some thread calls close().
Close ==
    /\ asm' = close(asm)
    /\ UNCHANGED <<pc, loc, ret, nput, cur, sent, fetched>>
    /\ UNCHANGED otherThanAssembler

\* Thread t, which is in no other call, calls close(), once.
CloseBy(t) ==
    /\ pc[t] = "idle"
    /\ ret[t].op # "close"
    /\ asm' = close(asm)
    /\ ret' = [ret EXCEPT ![t] = [op |-> "close", out |-> "return"]]
    /\ UNCHANGED <<pc, loc, nput, cur, sent, fetched>>
    /\ UNCHANGED otherThanAssembler

---------------------------------------------------------------------------
(* Specifications. *)

Producer(p, max) == Put(p, max) \/ PutWake(p)

AnyProducer(p, max) == PutAny(p, max) \/ PutWake(p)

Consumer(c) ==
    \/ Get(c) \/ GetWake(c) \/ GetTimeout(c) \/ GetTimedOut(c)
    \/ GetIter(c) \/ IterLocal(c) \/ IterQueue(c) \/ IterEnd(c)

\* One producer putting a well-formed stream and one consumer.
Next ==
    \/ Producer("p1", MaxPuts)
    \/ Consumer("c1")

Spec == Init /\ [][Next]_vars

\* The same with close() called at any moment, any number of times.
NextClose ==
    \/ Producer("p1", MaxPutsClose)
    \/ Consumer("c1")
    \/ Close

SpecClose == Init /\ [][NextClose]_vars

\* The threads keep running: a wait whose event is set returns, a thread that
\* wants the mutex gets it, and the consumer goes on iterating its iterator.
\* Starting a call, a timeout and close() are never forced.
Fairness ==
    /\ \A p \in Producers : WF_vars(PutWake(p))
    /\ \A c \in Consumers :
          /\ WF_vars(GetWake(c)) /\ WF_vars(GetTimedOut(c))
          /\ WF_vars(IterLocal(c)) /\ WF_vars(IterQueue(c)) /\ WF_vars(IterEnd(c))

SpecCloseFair == SpecClose /\ Fairness

\* One producer putting a well-formed stream and one consumer, never closed,
\* with the threads kept running.
NextFair ==
    \/ Producer("p1", MaxPutsFair)
    \/ Consumer("c1")

SpecFair == Init /\ [][NextFair]_vars /\ Fairness

\* The same with a consumer that keeps fetching: when it is in no call, it
\* calls get or get_iter.
SpecProgress ==
    Init /\ [][NextFair]_vars /\ Fairness /\ WF_vars(Get("c1") \/ GetIter("c1"))

\* One producer putting a well-formed stream and two consumer threads.
NextConsumers ==
    \/ Producer("p1", MaxPutsConsumers)
    \/ \E c \in Consumers : Consumer(c)

SpecConsumers == Init /\ [][NextConsumers]_vars

\* One producer putting any frames and one consumer.
NextAny ==
    \/ AnyProducer("p1", MaxPutsAny)
    \/ Consumer("c1")

SpecAny == Init /\ [][NextAny]_vars

\* One producer whose puts of control frames are recorded, one consumer, and
\* close() called at any moment.
NextControl ==
    \/ PutLogged("p1", MaxPutsControl) \/ PutWake("p1")
    \/ Consumer("c1")
    \/ Close

SpecControl == Init /\ [][NextControl]_vars

\* One producer, one consumer that may stop iterating an iterator before its
\* end and call get() and get_iter() again, and close().
NextAbandon ==
    \/ Producer("p1", MaxPutsAbandon)
    \/ Consumer("c1")
    \/ Abandon("c1")
    \/ Close

SpecAbandon == Init /\ [][NextAbandon]_vars

\* One producer, one consumer, and two more threads that each call close().
NextClosers ==
    \/ Producer("p1", MaxPutsClosers)
    \/ Consumer("c1")
    \/ CloseBy("p2")
    \/ CloseBy("c2")

SpecClosers == Init /\ [][NextClosers]_vars

\* One thread putting any frames, two consumer threads, and close() called
\* at any moment, any number of times.
NextAsserts ==
    \/ AnyProducer("p1", MaxPutsAsserts)
    \/ \E c \in Consumers : Consumer(c)
    \/ Close

SpecAsserts == Init /\ [][NextAsserts]_vars

\* Two threads putting any frames, one consumer, and close() called at any
\* moment.
NextProducers ==
    \/ \E p \in Producers : AnyProducer(p, MaxPutsProducers)
    \/ Consumer("c1")
    \/ Close

SpecProducers == Init /\ [][NextProducers]_vars

---------------------------------------------------------------------------
(* Frame.read (src/websockets/legacy/framing.py).                          *)
(*                                                                         *)
(* The reader is the byte stream it reads from: reader(n) returns the next *)
(* n bytes, or fails when the stream ends before them.  Python's integers  *)
(* are unbounded and a declared length takes up to 64 bits, so a length    *)
(* and max_size are kept as their eight base-256 digits, most significant  *)
(* first.                                                                  *)

Bit(b, k) == (b \div (2 ^ k)) % 2

\* a number below 2^24 as eight digits
Num(n) == <<0, 0, 0, 0, 0, (n \div 65536) % 256, (n \div 256) % 256, n % 256>>

\* struct.unpack("!H", data) and struct.unpack("!Q", data)
unpack_H(data) == <<0, 0, 0, 0, 0, 0, data[1], data[2]>>
unpack_Q(data) == data

\* a > b on digits
Gt(a, b) == \E i \in 1..8 : a[i] > b[i] /\ \A j \in 1..(i - 1) : a[j] = b[j]

\* the digits' value, when it is below 2^24
IsSmall(a) == \A i \in 1..5 : a[i] = 0
Val(a) == a[6] * 65536 + a[7] * 256 + a[8]

\* max_size: None, or an integer
NoMaxSize == [isNone |-> TRUE, v |-> Num(0)]
MaxSize(v) == [isNone |-> FALSE, v |-> v]

\* frames.Opcode(value): the opcode of that value, ValueError when none is
OpcodeOf(value) ==
    CASE value = 0 -> "CONT"
      [] value = 1 -> "TEXT"
      [] value = 2 -> "BINARY"
      [] value = 8 -> "CLOSE"
      [] value = 9 -> "PING"
      [] value = 10 -> "PONG"
      [] OTHER -> "ValueError"

\* frames.Frame(opcode, data, fin, rsv1, rsv2, rsv3)
NewFrame(opcode, data, fin, rsv1, rsv2, rsv3) ==
    [opcode |-> opcode, data |-> data, fin |-> fin,
     rsv1 |-> rsv1, rsv2 |-> rsv2, rsv3 |-> rsv3]

\* a XOR b on bytes
RECURSIVE Xor(_, _, _)
Xor(a, b, bits) ==
    IF bits = 0 THEN 0
    ELSE ((a + b) % 2) + 2 * Xor(a \div 2, b \div 2, bits - 1)

\* apply_mask(data, mask): each byte XOR the mask byte at its index mod 4
apply_mask(data, mask_bits) ==
    [i \in 1..Len(data) |-> Xor(data[i], mask_bits[((i - 1) % 4) + 1], 8)]

\* The extensions: what their decode and encode do to a frame.
\*   claims_rsv1     encode sets rsv1 on a frame, decode clears it
\*   rsv2_for_rsv1   encode moves rsv1 to rsv2, decode moves rsv2 back to rsv1
\*   rsv3_is_binary  decode makes a frame with rsv3 a BINARY frame without it
Extensions == {"claims_rsv1", "rsv2_for_rsv1", "rsv3_is_binary"}

\* extension.decode(frame, max_size=max_size)
ExtensionDecode(extension, frame, max_size) ==
    CASE extension = "claims_rsv1" -> [frame EXCEPT !.rsv1 = FALSE]
      [] extension = "rsv2_for_rsv1" ->
            IF frame.rsv2 THEN [frame EXCEPT !.rsv1 = TRUE, !.rsv2 = FALSE] ELSE frame
      [] extension = "rsv3_is_binary" ->
            IF frame.rsv3 THEN [frame EXCEPT !.opcode = "BINARY", !.rsv3 = FALSE]
            ELSE frame

\* extension.encode(frame)
ExtensionEncode(extension, frame) ==
    CASE extension = "claims_rsv1" -> [frame EXCEPT !.rsv1 = TRUE]
      [] extension = "rsv2_for_rsv1" ->
            IF frame.rsv1 THEN [frame EXCEPT !.rsv2 = TRUE, !.rsv1 = FALSE] ELSE frame
      [] extension = "rsv3_is_binary" -> frame

\* frames.Frame.check(): "" when the frame is valid, else the ProtocolError
check(frame) ==
    IF frame.rsv1 \/ frame.rsv2 \/ frame.rsv3 THEN "reserved bits must be 0"
    ELSE IF frame.opcode \in CtrlOpcodes /\ Len(frame.data) > 125
    THEN "control frame too long"
    ELSE IF frame.opcode \in CtrlOpcodes /\ ~frame.fin
    THEN "fragmented control frame"
    ELSE ""

Reversed(s) == [i \in 1..Len(s) |-> s[Len(s) + 1 - i]]

\* The loop "for extension in <order>: new_frame = extension.decode(...)":
\* the frame it ends with, and the calls of decode it made.
RECURSIVE DecodeAll(_, _, _, _)
DecodeAll(order, frame, max_size, calls) ==
    IF order = <<>> THEN [frame |-> frame, calls |-> calls]
    ELSE DecodeAll(Tail(order),
                   ExtensionDecode(Head(order), frame, max_size),
                   max_size,
                   Append(calls, [extension |-> Head(order), frame |-> frame,
                                  max_size |-> max_size]))

NoFrameRead == NewFrame("CONT", <<>>, FALSE, FALSE, FALSE, FALSE)

\* How a call of read ends: the frame returned or the exception raised, with
\* the calls of reader made (the numbers of bytes asked for), the bytes they
\* returned in all, and the calls of decode made.
ReadRaises(exc, msg, asked, nread) ==
    [out |-> exc, msg |-> msg, frame |-> NoFrameRead,
     asked |-> asked, nread |-> nread, calls |-> <<>>]

\* reader(n) at position pos of the stream: n is digits
reader(stream, pos, n) ==
    IF IsSmall(n) /\ pos + Val(n) <= Len(stream)
    THEN [ok |-> TRUE, data |-> SubSeq(stream, pos + 1, pos + Val(n))]
    ELSE [ok |-> FALSE, data |-> <<>>]

\* read, lines 100-106: the declared length, the position in the stream after
\* it and the calls of reader made so far
read_length(stream, len7) ==
    IF len7 = 126
    THEN LET r == reader(stream, 2, Num(2))
         IN [ok |-> r.ok, length |-> IF r.ok THEN unpack_H(r.data) ELSE Num(0),
             pos |-> IF r.ok THEN 4 ELSE 2, asked |-> <<Num(2), Num(2)>>]
    ELSE IF len7 = 127
    THEN LET r == reader(stream, 2, Num(8))
         IN [ok |-> r.ok, length |-> IF r.ok THEN unpack_Q(r.data) ELSE Num(0),
             pos |-> IF r.ok THEN 10 ELSE 2, asked |-> <<Num(2), Num(8)>>]
    ELSE [ok |-> TRUE, length |-> Num(len7), pos |-> 2, asked |-> <<Num(2)>>]

\* Mutant of read_header: the mask bit is not compared with mask.
read_header_any_mask(stream, mask) ==
    LET h == reader(stream, 0, Num(2)) IN
    IF ~h.ok THEN [ok |-> FALSE, raised |-> ReadRaises("IncompleteReadError", "", <<Num(2)>>, 0)]
    ELSE
    LET head1 == h.data[1]
        head2 == h.data[2]
        opcode == OpcodeOf(head1 % 16)
    IN
    IF opcode = "ValueError"
    THEN [ok |-> FALSE,
          raised |-> ReadRaises("ProtocolError", "invalid opcode", <<Num(2)>>, 2)]
    ELSE [ok |-> TRUE,
          fin |-> Bit(head1, 7) = 1, rsv1 |-> Bit(head1, 6) = 1,
          rsv2 |-> Bit(head1, 5) = 1, rsv3 |-> Bit(head1, 4) = 1,
          opcode |-> opcode, len7 |-> head2 % 128, masked |-> mask]

\* Mutant of read_header: the masking rule comes before the opcode.
read_header_mask_first(stream, mask) ==
    LET h == reader(stream, 0, Num(2)) IN
    IF ~h.ok THEN [ok |-> FALSE, raised |-> ReadRaises("IncompleteReadError", "", <<Num(2)>>, 0)]
    ELSE
    LET head1 == h.data[1]
        head2 == h.data[2]
        opcode == OpcodeOf(head1 % 16)
    IN
    IF (Bit(head2, 7) = 1) # mask
    THEN [ok |-> FALSE,
          raised |-> ReadRaises("ProtocolError", "incorrect masking", <<Num(2)>>, 2)]
    ELSE IF opcode = "ValueError"
    THEN [ok |-> FALSE,
          raised |-> ReadRaises("ProtocolError", "invalid opcode", <<Num(2)>>, 2)]
    ELSE [ok |-> TRUE,
          fin |-> Bit(head1, 7) = 1, rsv1 |-> Bit(head1, 6) = 1,
          rsv2 |-> Bit(head1, 5) = 1, rsv3 |-> Bit(head1, 4) = 1,
          opcode |-> opcode, len7 |-> head2 % 128, masked |-> mask]

\* read, lines 82-98: the two header bytes, their fields, the opcode and the
\* masking rule
read_header(stream, mask) ==
    LET h == reader(stream, 0, Num(2)) IN
    IF ~h.ok THEN [ok |-> FALSE, raised |-> ReadRaises("IncompleteReadError", "", <<Num(2)>>, 0)]
    ELSE
    LET head1 == h.data[1]
        head2 == h.data[2]
        opcode == OpcodeOf(head1 % 16)
    IN
    IF opcode = "ValueError"
    THEN [ok |-> FALSE,
          raised |-> ReadRaises("ProtocolError", "invalid opcode", <<Num(2)>>, 2)]
    ELSE IF (Bit(head2, 7) = 1) # mask
    THEN [ok |-> FALSE,
          raised |-> ReadRaises("ProtocolError", "incorrect masking", <<Num(2)>>, 2)]
    ELSE [ok |-> TRUE,
          fin |-> Bit(head1, 7) = 1, rsv1 |-> Bit(head1, 6) = 1,
          rsv2 |-> Bit(head1, 5) = 1, rsv3 |-> Bit(head1, 4) = 1,
          opcode |-> opcode, len7 |-> head2 % 128, masked |-> mask]

\* Mutant of over_size_limit: a length equal to max_size is over the limit.
over_size_limit_at_equal(length, max_size) ==
    ~max_size.isNone /\ ~Gt(max_size.v, length)

\* read, line 107: max_size is not None and length > max_size
over_size_limit(length, max_size) ==
    ~max_size.isNone /\ Gt(length, max_size.v)

\* Mutant of decode_order: the extensions in the order of the list.
decode_order_forward(extensions) == extensions

\* read, line 121: reversed(extensions)
decode_order(extensions) == Reversed(extensions)

\* Mutant of read: the mask key is read before the length is compared with
\* max_size.
read_key_before_limit(stream, mask, max_size, extensions) ==
    LET h == read_header(stream, mask) IN
    IF ~h.ok THEN h.raised
    ELSE
    LET l == read_length(stream, h.len7) IN
    IF ~l.ok THEN ReadRaises("IncompleteReadError", "", l.asked, l.pos)
    ELSE
    LET mask_bits == IF mask THEN reader(stream, l.pos, Num(4))
                     ELSE [ok |-> TRUE, data |-> <<>>]
        asked2 == IF mask THEN Append(l.asked, Num(4)) ELSE l.asked
        pos2 == IF mask /\ mask_bits.ok THEN l.pos + 4 ELSE l.pos
    IN
    IF ~mask_bits.ok THEN ReadRaises("IncompleteReadError", "", asked2, l.pos)
    ELSE IF over_size_limit(l.length, max_size)
    THEN ReadRaises("PayloadTooBig", "over size limit", asked2, pos2)
    ELSE
    LET d == reader(stream, pos2, l.length)
        asked3 == Append(asked2, l.length)
    IN
    IF ~d.ok THEN ReadRaises("IncompleteReadError", "", asked3, pos2)
    ELSE
    LET data == IF mask THEN apply_mask(d.data, mask_bits.data) ELSE d.data
        new_frame == NewFrame(h.opcode, data, h.fin, h.rsv1, h.rsv2, h.rsv3)
        decoded == DecodeAll(decode_order(extensions), new_frame, max_size, <<>>)
        error == check(decoded.frame)
    IN  [out |-> IF error = "" THEN "Frame" ELSE "ProtocolError",
         msg |-> error,
         frame |-> IF error = "" THEN decoded.frame ELSE NoFrameRead,
         asked |-> asked3,
         nread |-> pos2 + Val(l.length),
         calls |-> decoded.calls]

\* Frame.read(reader, mask=mask, max_size=max_size, extensions=extensions),
\* lines 82-133; extensions None is the empty list (lines 119-120)
read(stream, mask, max_size, extensions) ==
    LET h == read_header(stream, mask) IN
    IF ~h.ok THEN h.raised
    ELSE
    LET l == read_length(stream, h.len7) IN
    IF ~l.ok THEN ReadRaises("IncompleteReadError", "", l.asked, l.pos)
    ELSE IF over_size_limit(l.length, max_size)
    THEN ReadRaises("PayloadTooBig", "over size limit", l.asked, l.pos)
    ELSE
    LET mask_bits == IF mask THEN reader(stream, l.pos, Num(4))
                     ELSE [ok |-> TRUE, data |-> <<>>]
        asked2 == IF mask THEN Append(l.asked, Num(4)) ELSE l.asked
        pos2 == IF mask /\ mask_bits.ok THEN l.pos + 4 ELSE l.pos
    IN
    IF ~mask_bits.ok THEN ReadRaises("IncompleteReadError", "", asked2, l.pos)
    ELSE
    LET d == reader(stream, pos2, l.length)
        asked3 == Append(asked2, l.length)
    IN
    IF ~d.ok THEN ReadRaises("IncompleteReadError", "", asked3, pos2)
    ELSE
    LET data == IF mask THEN apply_mask(d.data, mask_bits.data) ELSE d.data
        new_frame == NewFrame(h.opcode, data, h.fin, h.rsv1, h.rsv2, h.rsv3)
        decoded == DecodeAll(decode_order(extensions), new_frame, max_size, <<>>)
        error == check(decoded.frame)
    IN  [out |-> IF error = "" THEN "Frame" ELSE "ProtocolError",
         msg |-> error,
         frame |-> IF error = "" THEN decoded.frame ELSE NoFrameRead,
         asked |-> asked3,
         nread |-> pos2 + Val(l.length),
         calls |-> decoded.calls]

\* The calls of read looked at. First header bytes: fin, one reserved bit or
\* none, the six opcodes and two values that are no opcode.
Head1s == {fin * 128 + rsv + op : fin \in {0, 1}, rsv \in {0, 64, 32, 16},
                                  op \in {0, 1, 2, 3, 8, 9, 10, 15}}
\* Second header bytes: the mask bit and the three forms of the length.
Head2s == {m * 128 + len7 : m \in {0, 1}, len7 \in {0, 1, 2, 126, 127}}
\* What follows a header: the length's extension when len7 asks for one,
\* whole or cut short, with 2^63 - 1, 2^63 and 2^64 - 1 among the lengths.
Lengths16 == {<<0, 0>>, <<0, 1>>, <<0, 2>>, <<0, 126>>, <<255, 255>>, <<0>>}
Lengths64 == {Num(1), Num(2), Num(65536),
              <<127, 255, 255, 255, 255, 255, 255, 255>>,
              <<128, 0, 0, 0, 0, 0, 0, 0>>,
              <<128, 0, 0, 0, 0, 0, 0, 1>>,
              <<255, 255, 255, 255, 255, 255, 255, 255>>,
              <<128, 0, 0>>}
LengthBytes(head2) ==
    IF head2 % 128 = 126 THEN Lengths16
    ELSE IF head2 % 128 = 127 THEN Lengths64
    ELSE {<<>>}
\* ... and then a mask key, a payload, both or nothing.
Rests == {<<>>, <<7>>, <<7, 8>>, <<1, 2, 3, 4>>, <<1, 2, 3, 4, 7>>,
          <<1, 2, 3, 4, 7, 8>>}
\* a stream of less than a header
ShortStreams == {<<>>, <<129>>}

MaxSizes == {NoMaxSize, MaxSize(Num(1)), MaxSize(Num(126)), MaxSize(Num(65536)),
             MaxSize(<<127, 255, 255, 255, 255, 255, 255, 255>>)}

ExtensionLists == {<<>>, <<"claims_rsv1">>, <<"rsv3_is_binary">>,
                   <<"claims_rsv1", "rsv2_for_rsv1">>,
                   <<"rsv2_for_rsv1", "claims_rsv1">>}

\* A call of read before it ran.
ReadCall(stream, mask, max_size, extensions) ==
    [called |-> TRUE, stream |-> stream, mask |-> mask, max_size |-> max_size,
     extensions |-> extensions, done |-> FALSE,
     result |-> ReadRaises("none", "", <<>>, 0)]

\* Every stream with every max_size and no extension; the streams with a
\* 7-bit length also with every list of extensions and no max_size.
InitRead ==
    /\ InitAssembler
    /\ InitServer
    /\ InitNegotiation
    /\ InitClient
    /\ conn = NoConn
    /\ wire = <<>>
    /\ wrote = <<>>
    /\ \E mask \in BOOLEAN, max_size \in MaxSizes, extensions \in ExtensionLists :
          /\ extensions = <<>> \/ max_size = NoMaxSize
          /\ \/ \E stream \in ShortStreams :
                   /\ extensions = <<>>
                   /\ rd = ReadCall(stream, mask, max_size, extensions)
             \/ \E head1 \in Head1s, head2 \in Head2s, rest \in Rests :
                   \E l \in LengthBytes(head2) :
                      /\ extensions = <<>> \/ head2 % 128 < 126
                      /\ rd = ReadCall(<<head1, head2>> \o l \o rest,
                                       mask, max_size, extensions)

\* The call of read runs to its end.
Read ==
    /\ rd.called /\ ~rd.done
    /\ rd' = [rd EXCEPT !.done = TRUE,
                        !.result = read(rd.stream, rd.mask, rd.max_size, rd.extensions)]
    /\ UNCHANGED <<conn, wire, wrote>>
    /\ UNCHANGED otherThanFraming

NextRead == Read

SpecRead == InitRead /\ [][NextRead]_vars

---------------------------------------------------------------------------
(* Frame.write (src/websockets/legacy/framing.py).                         *)

\* the value of an opcode
OpcodeValue(opcode) ==
    CASE opcode = "CONT" -> 0
      [] opcode = "TEXT" -> 1
      [] opcode = "BINARY" -> 2
      [] opcode = "CLOSE" -> 8
      [] opcode = "PING" -> 9
      [] opcode = "PONG" -> 10

\* The loop of the extensions' encode, in the order of the list.
RECURSIVE EncodeAll(_, _)
EncodeAll(order, frame) ==
    IF order = <<>> THEN frame
    ELSE EncodeAll(Tail(order), ExtensionEncode(Head(order), frame))

Flag(b) == IF b THEN 1 ELSE 0

\* frames.Frame.serialize(mask=mask, extensions=extensions), key being the
\* random mask key: the frame is checked, encoded by the extensions, and laid
\* out as header, length, mask key and payload in one buffer.
serialize(frame, mask, key, extensions) ==
    IF check(frame) # "" THEN [ok |-> FALSE, msg |-> check(frame), data |-> <<>>]
    ELSE
    LET f == EncodeAll(extensions, frame)
        length == Len(f.data)
        head1 == Flag(f.fin) * 128 + Flag(f.rsv1) * 64 + Flag(f.rsv2) * 32
                 + Flag(f.rsv3) * 16 + OpcodeValue(f.opcode)
        head2 == Flag(mask) * 128
                 + (IF length < 126 THEN length ELSE IF length < 65536 THEN 126 ELSE 127)
        extended == IF length < 126 THEN <<>>
                    ELSE IF length < 65536 THEN <<length \div 256, length % 256>>
                    ELSE Num(length)
        payload == IF mask THEN key \o apply_mask(f.data, key) ELSE f.data
    IN  [ok |-> TRUE, msg |-> "", data |-> <<head1, head2>> \o extended \o payload]

\* Mutant of write: the header goes to the write callback in a call of its
\* own, before the mask key and the payload.
write_header_first(frame, mask, key, extensions) ==
    LET s == serialize(frame, mask, key, extensions) IN
    IF ~s.ok THEN [out |-> "ProtocolError", buffers |-> <<>>]
    ELSE [out |-> "None",
          buffers |-> <<SubSeq(s.data, 1, 2), SubSeq(s.data, 3, Len(s.data))>>]

\* Frame.write(write, mask=mask, extensions=extensions), line 159: the calls
\* of the write callback it makes, each with its buffer
write(frame, mask, key, extensions) ==
    LET s == serialize(frame, mask, key, extensions) IN
    IF ~s.ok THEN [out |-> "ProtocolError", buffers |-> <<>>]
    ELSE [out |-> "None", buffers |-> <<s.data>>]

\* frames written in one run
MaxWrites == 2

\* The payloads written: none, two bytes, and 126 bytes, the shortest whose
\* length takes the 16-bit form.
WritePayloads == {<<>>, <<7, 8>>, [i \in 1..126 |-> 7]}

\* The frames written: data frames with each payload, the first and the last
\* frame of a fragmented message, control frames, one of them fragmented, and
\* a frame that sets a reserved bit itself.
WriteFrames ==
    {NewFrame("TEXT", data, TRUE, FALSE, FALSE, FALSE) : data \in WritePayloads}
    \cup {NewFrame("TEXT", <<7, 8>>, FALSE, FALSE, FALSE, FALSE),
          NewFrame("CONT", <<>>, TRUE, FALSE, FALSE, FALSE),
          NewFrame("PING", <<7, 8>>, TRUE, FALSE, FALSE, FALSE),
          NewFrame("PING", <<>>, FALSE, FALSE, FALSE, FALSE),
          NewFrame("BINARY", <<7, 8>>, TRUE, TRUE, FALSE, FALSE)}

\* the mask keys drawn
MaskKeys == {<<0, 0, 0, 0>>, <<255, 1, 128, 7>>}

InitWrite ==
    /\ InitAssembler
    /\ InitServer
    /\ InitNegotiation
    /\ InitClient
    /\ rd = NoRead
    /\ conn \in [mask : BOOLEAN, extensions : {<<>>, <<"claims_rsv1">>}]
    /\ wire = <<>>
    /\ wrote = <<>>

\* Sender s calls Frame.write on a frame, with the connection's write
\* callback, mask and extensions. The method has no suspension point: the
\* call is one step.
Write(s) ==
    /\ Len(wrote) < MaxWrites
    /\ \E frame \in WriteFrames, key \in MaskKeys :
          LET w == write(frame, conn.mask, key, conn.extensions)
          IN /\ conn.mask \/ key = <<0, 0, 0, 0>>
             /\ wire' = wire \o w.buffers
             /\ wrote' = Append(wrote, [sender |-> s, frame |-> frame, out |-> w.out])
    /\ UNCHANGED <<rd, conn>>
    /\ UNCHANGED otherThanFraming

NextWrite == \E s \in Senders : Write(s)

SpecWrite == InitWrite /\ [][NextWrite]_vars

---------------------------------------------------------------------------
(* The server (src/websockets/legacy/server.py).                           *)
(*                                                                         *)
(* The event loop runs one task at a time and switches tasks only at an    *)
(* await, so a step of a task is the code between two awaits.              *)

\* calls of WebSocketServer.close in one run
MaxCloseCalls == 2

Exc(kind) == [kind |-> kind, status |-> 0, body |-> ""]
AbortHandshake(status, body) ==
    [kind |-> "AbortHandshake", status |-> status, body |-> body]
Response(status, body) == [none |-> FALSE, status |-> status, body |-> body]

\* The classes an exception is an instance of: the hierarchy of
\* websockets.exceptions and of the built-in exceptions. CancelledError is an
\* Exception before Python 3.8 only.
Bases(kind, py_lt_38) ==
    CASE kind = "InvalidOrigin" ->
            {"InvalidOrigin", "InvalidHeader", "InvalidHandshake", "Exception"}
      [] kind = "InvalidUpgrade" ->
            {"InvalidUpgrade", "InvalidHeader", "InvalidHandshake", "Exception"}
      [] kind = "InvalidHeader" -> {"InvalidHeader", "InvalidHandshake", "Exception"}
      [] kind = "NegotiationError" -> {"NegotiationError", "InvalidHandshake", "Exception"}
      [] kind = "InvalidMessage" -> {"InvalidMessage", "InvalidHandshake", "Exception"}
      [] kind = "AbortHandshake" -> {"AbortHandshake", "InvalidHandshake", "Exception"}
      [] kind = "ConnectionClosedError" ->
            {"ConnectionClosedError", "ConnectionClosed", "Exception"}
      [] kind = "ConnectionResetError" ->
            {"ConnectionResetError", "ConnectionError", "OSError", "Exception"}
      [] kind = "RuntimeError" -> {"RuntimeError", "Exception"}
      [] kind = "CancelledError" ->
            {"CancelledError"} \cup (IF py_lt_38 THEN {"Exception"} ELSE {})

isinstance(exc, class, py_lt_38) == class \in Bases(exc.kind, py_lt_38)

\* Mutant of error_status: the test for InvalidHandshake comes first.
error_status_handshake_first(exc, py_lt_38) ==
    IF isinstance(exc, "InvalidHandshake", py_lt_38) THEN 400
    ELSE IF isinstance(exc, "AbortHandshake", py_lt_38) THEN exc.status
    ELSE IF isinstance(exc, "InvalidOrigin", py_lt_38) THEN 403
    ELSE IF isinstance(exc, "InvalidUpgrade", py_lt_38) THEN 426
    ELSE 500

\* handler, lines 249-289: the status of the response to a failed handshake
error_status(exc, py_lt_38) ==
    IF isinstance(exc, "AbortHandshake", py_lt_38) THEN exc.status
    ELSE IF isinstance(exc, "InvalidOrigin", py_lt_38) THEN 403
    ELSE IF isinstance(exc, "InvalidUpgrade", py_lt_38) THEN 426
    ELSE IF isinstance(exc, "InvalidHandshake", py_lt_38) THEN 400
    ELSE 500

\* handler, lines 249-289: the body of the response to a failed handshake
error_body(exc, py_lt_38) ==
    IF isinstance(exc, "AbortHandshake", py_lt_38) THEN exc.body
    ELSE IF isinstance(exc, "InvalidOrigin", py_lt_38)
    THEN "Failed to open a WebSocket connection: {exc}."
    ELSE IF isinstance(exc, "InvalidUpgrade", py_lt_38)
    THEN "Failed to open a WebSocket connection: {exc}. You cannot access"
    ELSE IF isinstance(exc, "InvalidHandshake", py_lt_38)
    THEN "Failed to open a WebSocket connection: {exc}."
    ELSE "Failed to open a WebSocket connection. See server log"

\* self.transport.close(), and the connection_lost that follows it
transport_close(w) == [w EXCEPT !.transport = "closed", !.state = "CLOSED"]

\* A close frame is sent by close(code) and fail_connection(code) on an OPEN
\* connection only.
send_close(w, code) ==
    IF w.state = "OPEN"
    THEN [w EXCEPT !.close_frames = Append(@, code), !.state = "CLOSING"]
    ELSE w

\* fail_connection(code)
fail_connection(w, code) == [send_close(w, code) EXCEPT !.failed = Append(@, code)]

\* handler, lines 320-333, an exception leaving the inner blocks: the
\* transport is closed if the exception is an Exception, and the handler ends.
handler_exits(w, exc, py_lt_38) ==
    [(IF isinstance(exc, "Exception", py_lt_38) THEN transport_close(w) ELSE w)
        EXCEPT !.at = "done"]

\* handler, lines 242-302, handshake having raised exc: CancelledError and
\* ConnectionError are raised again; for any other Exception a response is
\* written and the handler awaits close_transport.
handshake_raised(w, exc, py_lt_38) ==
    LET r == [w EXCEPT !.raised = exc] IN
    IF \/ isinstance(exc, "CancelledError", py_lt_38)
       \/ isinstance(exc, "ConnectionError", py_lt_38)
    THEN handler_exits([r EXCEPT !.exit = "handshake raised"], exc, py_lt_38)
    ELSE [r EXCEPT !.responses = Append(@, error_status(exc, py_lt_38)),
                   !.bodies = Append(@, error_body(exc, py_lt_38)),
                   !.at = "close_transport"]

\* Mutant of is_serving: the server says it is serving after its close.
is_serving_after_close(server) == TRUE

\* WebSocketServer.is_serving, lines 795-800
is_serving(server) == server.serving

\* Mutant of handshake_after_request: the request is validated before the
\* early response is looked at.
handshake_validates_first(w, server, early, fault) ==
    IF w.state = "CLOSED" THEN [w |-> w, exc |-> Exc("ConnectionClosedError")]
    ELSE
    LET c == [w EXCEPT !.checked = IF server.serving THEN "serving" ELSE "stopped"]
        early_response == IF ~is_serving(server)
                          THEN Response(503, "Server is shutting down.")
                          ELSE early
        v == [c EXCEPT !.request = fault]
    IN  IF fault # "none" THEN [w |-> v, exc |-> Exc(fault)]
        ELSE IF ~early_response.none
        THEN [w |-> v, exc |-> AbortHandshake(early_response.status,
                                              early_response.body)]
        ELSE [w |-> [v EXCEPT !.responses = Append(@, 101),
                              !.bodies = Append(@, "None"), !.state = "OPEN"],
              exc |-> NoExc]

\* Mutant of handshake_after_request: connection_open comes before the
\* validation of the request.
handshake_opens_first(w, server, early, fault) ==
    IF w.state = "CLOSED" THEN [w |-> w, exc |-> Exc("ConnectionClosedError")]
    ELSE
    LET c == [w EXCEPT !.checked = IF server.serving THEN "serving" ELSE "stopped"]
        early_response == IF ~is_serving(server)
                          THEN Response(503, "Server is shutting down.")
                          ELSE early
        v == [c EXCEPT !.request = fault, !.state = "OPEN"]
    IN  IF ~early_response.none
        THEN [w |-> c, exc |-> AbortHandshake(early_response.status,
                                              early_response.body)]
        ELSE IF fault # "none" THEN [w |-> v, exc |-> Exc(fault)]
        ELSE [w |-> [v EXCEPT !.responses = Append(@, 101),
                              !.bodies = Append(@, "None")],
              exc |-> NoExc]

\* handshake, lines 659-710, once process_request returned early: the checks
\* of the connection and of the server, the early response, the validation of
\* the request (fault is the exception it raises, or "none"), the 101
\* response and connection_open. Returns the protocol and what is raised.
handshake_after_request(w, server, early, fault) ==
    IF w.state = "CLOSED" THEN [w |-> w, exc |-> Exc("ConnectionClosedError")]
    ELSE
    LET c == [w EXCEPT !.checked = IF server.serving THEN "serving" ELSE "stopped"]
        early_response == IF ~is_serving(server)
                          THEN Response(503, "Server is shutting down.")
                          ELSE early
        v == [c EXCEPT !.request = fault]
    IN  IF ~early_response.none
        THEN [w |-> c, exc |-> AbortHandshake(early_response.status,
                                              early_response.body)]
        ELSE IF fault # "none" THEN [w |-> v, exc |-> Exc(fault)]
        ELSE [w |-> [v EXCEPT !.responses = Append(@, 101),
                              !.bodies = Append(@, "None"), !.state = "OPEN"],
              exc |-> NoExc]

\* What can be wrong with a request: the exception that check_request,
\* process_origin, process_extensions, process_subprotocol or extra_headers
\* raises.
RequestFaults == {"none", "InvalidUpgrade", "InvalidHeader", "InvalidOrigin",
                  "NegotiationError", "RuntimeError"}

\* What process_request does: it returns None or a response, or it raises.
ProcessRequestReturns == {NoResponse, Response(200, "OK"),
                          Response(401, "Unauthorized")}
ProcessRequestRaises == {Exc("ConnectionResetError"), Exc("RuntimeError"),
                         Exc("CancelledError")}

InitServerRun ==
    /\ InitAssembler
    /\ InitFraming
    /\ InitNegotiation
    /\ InitClient
    /\ \E py_lt_38 \in BOOLEAN : srv = NewServer(py_lt_38)
    /\ ws = [k \in Conns |-> NewProtocol]

\* WebSocketServer.register, lines 781-786
register(server, k) ==
    [server EXCEPT !.websockets = @ \cup {k}, !.registers[k] = @ + 1]

\* WebSocketServer.unregister, lines 788-793: set.remove raises KeyError for
\* an element that is not in the set
unregister(server, k) ==
    IF k \in server.websockets
    THEN [server EXCEPT !.websockets = @ \ {k}, !.unregisters[k] = @ + 1]
    ELSE [server EXCEPT !.key_errors = @ \cup {k}, !.unregisters[k] = @ + 1]

\* Mutant of Unregistered: a cancelled handler does not unregister.
Unregistered_unless_cancelled(server, k, w) ==
    IF /\ w.at = "done"
       /\ w.exit \notin {"ws_handler cancelled", "close cancelled",
                         "close_transport cancelled"}
    THEN unregister(server, k) ELSE server

\* handler, lines 327-333: the finally block, run when the handler is done
Unregistered(server, k, w) ==
    IF w.at = "done" THEN unregister(server, k) ELSE server

\* connection_made, lines 211-222. The server's close task waits, until its
\* sleep(0) returns, for the accepted connections to get here.
ConnectionMade(k) ==
    /\ ws[k].at = "unmade"
    /\ srv.close_task \in {"None", "created", "sleep"}
    /\ srv' = register(srv, k)
    /\ ws' = [ws EXCEPT ![k].at = "read_http_request",
                        ![k].handler_task = IF k \in srv'.websockets
                                            THEN "created, registered"
                                            ELSE "created, not registered"]
    /\ UNCHANGED otherThanServer

\* handler resumes from read_http_request, lines 335-361: with the request,
\* or with InvalidMessage, or cancelled.
ReadHttpRequest(k) ==
    /\ ws[k].at = "read_http_request"
    /\ \E outcome \in {"ok", "InvalidMessage", "CancelledError"} :
          LET w == IF outcome = "ok"
                   THEN [ws[k] EXCEPT !.at = "process_request"]
                   ELSE handshake_raised(ws[k], Exc(outcome), srv.py_lt_38)
          IN /\ ws' = [ws EXCEPT ![k] = w]
             /\ srv' = Unregistered(srv, k, w)
    /\ UNCHANGED otherThanServer

\* handler resumes from process_request and runs to its next await: the rest
\* of handshake, then ws_handler is called, or the error response is written.
ProcessRequest(k) ==
    /\ ws[k].at = "process_request"
    /\ \E outcome \in ProcessRequestReturns \cup ProcessRequestRaises,
          fault \in RequestFaults :
          LET raises == outcome \in ProcessRequestRaises
              asked == [ws[k] EXCEPT
                          !.process_request = IF raises THEN "raised" ELSE "returned",
                          !.early = IF raises THEN NoResponse ELSE outcome]
              h == IF raises THEN [w |-> asked, exc |-> outcome]
                   ELSE handshake_after_request(asked, srv, outcome, fault)
              w == IF h.exc # NoExc
                   THEN handshake_raised(h.w, h.exc, srv.py_lt_38)
                   ELSE [h.w EXCEPT !.at = "ws_handler", !.ws_handler = @ + 1]
          IN /\ ws' = [ws EXCEPT ![k] = w]
             /\ srv' = Unregistered(srv, k, w)
    /\ UNCHANGED otherThanServer

\* The connection drops while process_request or ws_handler is running.
ConnectionLost(k) ==
    /\ ws[k].at \in {"process_request", "ws_handler"}
    /\ ws[k].state # "CLOSED"
    /\ ws' = [ws EXCEPT ![k] = transport_close(@)]
    /\ UNCHANGED srv
    /\ UNCHANGED otherThanServer

\* handler, lines 301-302 and 320-333: close_transport ends and the handler
\* returns, or the handler task is cancelled while it awaits it.
CloseTransport(k) ==
    /\ ws[k].at = "close_transport"
    /\ \E outcome \in {"return", "CancelledError"} :
          LET w == IF outcome = "return"
                   THEN [transport_close(ws[k]) EXCEPT !.at = "done",
                                                      !.exit = "handshake failed"]
                   ELSE handler_exits([ws[k] EXCEPT !.exit = "close_transport cancelled"],
                                      Exc(outcome), srv.py_lt_38)
          IN /\ ws' = [ws EXCEPT ![k] = w]
             /\ srv' = Unregistered(srv, k, w)
    /\ UNCHANGED otherThanServer

\* Mutant of ws_handler_raised: the connection is not failed.
ws_handler_raised_no_fail(w, exc, py_lt_38) ==
    handler_exits([w EXCEPT !.exit = IF exc.kind = "CancelledError"
                                     THEN "ws_handler cancelled"
                                     ELSE "ws_handler raised"], exc, py_lt_38)

\* handler, lines 306-310 and 320-333, ws_handler having raised exc: an
\* Exception fails the connection with 1011 unless it is closed, and is
\* raised again.
ws_handler_raised(w, exc, py_lt_38) ==
    LET r == [w EXCEPT !.exit = IF exc.kind = "CancelledError"
                                THEN "ws_handler cancelled"
                                ELSE "ws_handler raised"]
        f == IF isinstance(exc, "Exception", py_lt_38) /\ r.state # "CLOSED"
             THEN fail_connection(r, 1011)
             ELSE r
    IN  handler_exits(f, exc, py_lt_38)

\* handler, lines 304-313: ws_handler returns and close() is awaited, or it
\* raises, or the handler task is cancelled while it runs.
WsHandlerEnds(k) ==
    /\ ws[k].at = "ws_handler"
    /\ \E outcome \in {"return", "RuntimeError", "CancelledError"} :
          LET w == IF outcome = "return"
                   THEN [send_close(ws[k], 1000) EXCEPT !.at = "close", !.closes = @ + 1]
                   ELSE ws_handler_raised(ws[k], Exc(outcome), srv.py_lt_38)
          IN /\ ws' = [ws EXCEPT ![k] = w]
             /\ srv' = Unregistered(srv, k, w)
    /\ UNCHANGED otherThanServer

\* handler, lines 312-333: close() returns, the connection being closed, or
\* it raises, or the handler task is cancelled while it awaits it.
CloseEnds(k) ==
    /\ ws[k].at = "close"
    /\ \E outcome \in {"return", "ConnectionResetError", "RuntimeError",
                       "CancelledError"} :
          LET w == IF outcome = "return"
                   THEN [transport_close(ws[k]) EXCEPT !.at = "done",
                                                      !.exit = "close returned"]
                   ELSE handler_exits([ws[k] EXCEPT !.exit =
                                           IF outcome = "CancelledError"
                                           THEN "close cancelled"
                                           ELSE "close raised"],
                                      Exc(outcome), srv.py_lt_38)
          IN /\ ws' = [ws EXCEPT ![k] = w]
             /\ srv' = Unregistered(srv, k, w)
    /\ UNCHANGED otherThanServer

\* Mutant of ServerClose: every call creates a close task.
ServerClose_always_creates ==
    /\ srv.close_calls < MaxCloseCalls
    /\ srv' = [srv EXCEPT !.close_calls = @ + 1,
                          !.close_tasks = @ + 1,
                          !.close_task = "created"]
    /\ UNCHANGED ws
    /\ UNCHANGED otherThanServer

\* WebSocketServer.close, lines 818-819
ServerClose ==
    /\ srv.close_calls < MaxCloseCalls
    /\ srv' = [srv EXCEPT !.close_calls = @ + 1,
                          !.close_tasks = IF srv.close_task = "None" THEN @ + 1 ELSE @,
                          !.close_task = IF @ = "None" THEN "created" ELSE @]
    /\ UNCHANGED ws
    /\ UNCHANGED otherThanServer

\* _close, lines 830-840: the asyncio server is closed; the task awaits
\* wait_closed and sleep(0).
CloseTaskStarts ==
    /\ srv.close_task = "created"
    /\ srv' = [srv EXCEPT !.serving = FALSE, !.server_closes = @ + 1,
                          !.close_task = "sleep"]
    /\ UNCHANGED ws
    /\ UNCHANGED otherThanServer

\* _close, lines 847-854: close(1001) on every registered connection
CloseTaskClosesConnections ==
    /\ srv.close_task = "sleep"
    /\ ws' = [k \in Conns |->
                IF k \in srv.websockets THEN send_close(ws[k], 1001) ELSE ws[k]]
    /\ srv' = [srv EXCEPT !.awaited = srv.websockets, !.asked = srv.websockets,
                          !.close_task = "wait_close"]
    /\ UNCHANGED otherThanServer

\* _close, lines 859-863: the calls of close(1001) ended, the connections
\* being closed; the task awaits the handler tasks of the connections
\* registered now.
CloseTaskWaitsHandlers ==
    /\ srv.close_task = "wait_close"
    /\ \A k \in srv.awaited : ws[k].state = "CLOSED"
    /\ srv' = [srv EXCEPT !.awaited = srv.websockets, !.close_task = "wait_handlers"]
    /\ UNCHANGED ws
    /\ UNCHANGED otherThanServer

\* Mutant of CloseTaskEnds: closed_waiter is resolved without waiting for the
\* handler tasks.
CloseTaskEnds_without_waiting ==
    /\ srv.close_task = "wait_handlers"
    /\ srv' = [srv EXCEPT !.awaited = {}, !.set_results = @ + 1,
                          !.close_task = "done"]
    /\ UNCHANGED ws
    /\ UNCHANGED otherThanServer

\* _close, lines 865-868: the handler tasks ended; closed_waiter is resolved.
CloseTaskEnds ==
    /\ srv.close_task = "wait_handlers"
    /\ \A k \in srv.awaited : ws[k].at = "done"
    /\ srv' = [srv EXCEPT !.awaited = {}, !.set_results = @ + 1,
                          !.close_task = "done"]
    /\ UNCHANGED ws
    /\ UNCHANGED otherThanServer

Connection(k) ==
    \/ ConnectionMade(k)
    \/ ReadHttpRequest(k)
    \/ ProcessRequest(k)
    \/ ConnectionLost(k)
    \/ CloseTransport(k)
    \/ WsHandlerEnds(k)
    \/ CloseEnds(k)

CloseTask ==
    \/ CloseTaskStarts
    \/ CloseTaskClosesConnections
    \/ CloseTaskWaitsHandlers
    \/ CloseTaskEnds

NextServer ==
    \/ \E k \in Conns : Connection(k)
    \/ ServerClose
    \/ CloseTask

SpecServer == InitServerRun /\ [][NextServer]_vars

\* wait_closed, lines 870-878, is called: it awaits closed_waiter, shielded.
WaitClosedCalled ==
    /\ srv.wait_closed = "None"
    /\ srv' = [srv EXCEPT !.wait_closed = "waiting"]
    /\ UNCHANGED ws
    /\ UNCHANGED otherThanServer

\* wait_closed returns, closed_waiter being resolved.
WaitClosedReturns ==
    /\ srv.wait_closed = "waiting"
    /\ srv.set_results > 0
    /\ srv' = [srv EXCEPT !.wait_closed = "returned"]
    /\ UNCHANGED ws
    /\ UNCHANGED otherThanServer

NextServerWait ==
    \/ NextServer
    \/ WaitClosedCalled
    \/ WaitClosedReturns

SpecServerWait == InitServerRun /\ [][NextServerWait]_vars

---------------------------------------------------------------------------
(* The negotiation of the subprotocol (src/websockets/legacy/server.py).   *)

\* the longest list of subprotocols
MaxSubprotocols == 3

Subprotocols == {"chat", "superchat", "mqtt"}

\* the lists of subprotocols, repetitions included
SubprotocolLists ==
    UNION {[1..n -> Subprotocols] : n \in 0..MaxSubprotocols}

\* list.index(p), from 0
RECURSIVE index(_, _)
index(list, p) == IF Head(list) = p THEN 0 ELSE 1 + index(Tail(list), p)

\* set(list)
set(list) == {list[i] : i \in 1..Len(list)}

\* Mutant of priority: the client's preference alone.
priority_of_client(client_subprotocols, server_subprotocols, p) ==
    index(client_subprotocols, p)

\* select_subprotocol, lines 615-617: the key of the sort
priority(client_subprotocols, server_subprotocols, p) ==
    index(client_subprotocols, p) + index(server_subprotocols, p)

\* The orders in which a set can be iterated: Python fixes none.
Iterations(S) ==
    {o \in [1..Cardinality(S) -> S] : \A x \in S : \E i \in 1..Cardinality(S) : o[i] = x}

\* sorted(iterable, key=key): a stable sort, so that elements with equal keys
\* stay in the order of the iteration. key is a function on the elements.
RECURSIVE sorted(_, _)
sorted(iteration, key) ==
    IF iteration = <<>> THEN <<>>
    ELSE LET rest == sorted(Tail(iteration), key)
             x == Head(iteration)
             before == SelectSeq(rest, LAMBDA y : key[y] < key[x])
             after == SelectSeq(rest, LAMBDA y : key[y] >= key[x])
         IN  before \o <<x>> \o after

\* The selectors passed as select_subprotocol to serve(): none, one that
\* takes the server's first subprotocol that the client offers, one that
\* insists on the server's first subprotocol, one that declines.
Selectors == {"None", "server_order", "server_first", "decline"}

\* self._select_subprotocol(client_subprotocols, server_subprotocols)
custom_select(selector, client_subprotocols, server_subprotocols) ==
    CASE selector = "server_order" ->
            LET offered == SelectSeq(server_subprotocols,
                                     LAMBDA p : p \in set(client_subprotocols))
            IN  IF offered = <<>> THEN "None" ELSE Head(offered)
      [] selector = "server_first" ->
            IF server_subprotocols = <<>> THEN "None" ELSE Head(server_subprotocols)
      [] selector = "decline" -> "None"

\* select_subprotocol, lines 582-618: the values it can return, one for each
\* order of iteration of the set of common subprotocols
select_subprotocol(selector, client_subprotocols, server_subprotocols) ==
    IF selector # "None"
    THEN {custom_select(selector, client_subprotocols, server_subprotocols)}
    ELSE LET subprotocols == set(client_subprotocols) \cap set(server_subprotocols)
             key == [p \in subprotocols |->
                        priority(client_subprotocols, server_subprotocols, p)]
         IN  IF subprotocols = {} THEN {"None"}
             ELSE {sorted(iteration, key)[1] : iteration \in Iterations(subprotocols)}

InitSubprotocol ==
    /\ InitAssembler
    /\ InitFraming
    /\ InitServer
    /\ InitClient
    /\ ext = NotCalled
    /\ \E selector \in Selectors, client \in SubprotocolLists, server \in SubprotocolLists :
          sub = [called |-> TRUE, done |-> FALSE, selector |-> selector,
                 client |-> client, server |-> server, result |-> "None"]

\* The call of select_subprotocol returns.
SelectSubprotocol ==
    /\ sub.called
    /\ ~sub.done
    /\ \E result \in select_subprotocol(sub.selector, sub.client, sub.server) :
          sub' = [sub EXCEPT !.done = TRUE, !.result = result]
    /\ UNCHANGED ext
    /\ UNCHANGED otherThanNegotiation

NextSubprotocol == SelectSubprotocol

SpecSubprotocol == InitSubprotocol /\ [][NextSubprotocol]_vars

---------------------------------------------------------------------------
(* The negotiation of the extensions (src/websockets/legacy/server.py).    *)

\* the longest list of extensions offered, the longest list of factories
MaxOffers == 2
MaxFactories == 3

ExtensionNames == {"deflate", "zip"}
RequestParams == {"p0", "p1"}

\* what the client offers: (name, request_params) in the order of the header
Offers == [name : ExtensionNames, params : RequestParams]
OfferLists == UNION {[1..n -> Offers] : n \in 0..MaxOffers}

\* The factories of the server. A factory accepts any offer of its name
\* ("any"), only the offers with the parameters p1 ("only_p1"), or only when
\* no extension of its name is accepted yet ("alone").
Factories == [name : ExtensionNames, rule : {"any", "only_p1", "alone"}]
FactoryLists == UNION {[1..n -> Factories] : n \in 0..MaxFactories}

\* ext_factory.process_request_params(request_params, accepted_extensions):
\* the response parameters and the extension, or NegotiationError
process_request_params(ext_factory, request_params, accepted_extensions) ==
    LET accepts ==
            CASE ext_factory.rule = "any" -> TRUE
              [] ext_factory.rule = "only_p1" -> request_params = "p1"
              [] ext_factory.rule = "alone" ->
                    \A i \in 1..Len(accepted_extensions) :
                        accepted_extensions[i].name # ext_factory.name
    IN  IF accepts
        THEN [raised |-> "none",
              response_params |-> <<ext_factory.rule, request_params>>,
              extension |-> [name |-> ext_factory.name, rule |-> ext_factory.rule,
                             params |-> request_params]]
        ELSE [raised |-> "NegotiationError", response_params |-> <<>>,
              extension |-> [name |-> "", rule |-> "", params |-> ""]]

\* process_extensions, lines 520-539, the loop over the factories for one
\* offer, from factory j on. calls logs the calls of process_request_params.
RECURSIVE for_ext_factory(_, _, _, _, _, _)
for_ext_factory(offer, n, available_extensions, j, r, calls) ==
    IF j > Len(available_extensions) THEN [r EXCEPT !.calls = calls]
    ELSE
    LET ext_factory == available_extensions[j] IN
    IF ext_factory.name # offer.name
    THEN for_ext_factory(offer, n, available_extensions, j + 1, r, calls)
    ELSE
    LET p == process_request_params(ext_factory, offer.params, r.accepted_extensions)
        call == [offer |-> n, factory |-> j, request_params |-> offer.params,
                 accepted_extensions |-> r.accepted_extensions, raised |-> p.raised]
    IN  IF p.raised = "NegotiationError"
        THEN for_ext_factory(offer, n, available_extensions, j + 1, r, Append(calls, call))
        ELSE [extension_headers |->
                  Append(r.extension_headers, <<offer.name, p.response_params>>),
              accepted_extensions |-> Append(r.accepted_extensions, p.extension),
              calls |-> Append(calls, call)]

\* process_extensions, lines 518-539, the loop over the offers, from offer n on
RECURSIVE for_offer(_, _, _, _)
for_offer(parsed_header_values, n, available_extensions, r) ==
    IF n > Len(parsed_header_values) THEN r
    ELSE for_offer(parsed_header_values, n + 1, available_extensions,
                   for_ext_factory(parsed_header_values[n], n, available_extensions,
                                   1, r, r.calls))

\* no Sec-WebSocket-Extensions header in the response
NoHeader == [none |-> TRUE, value |-> <<>>]

\* what process_extensions returns, from the lists its loops built
extensions_result(r) ==
    [response_header_value |->
        IF r.extension_headers # <<>>
        THEN [none |-> FALSE, value |-> r.extension_headers]
        ELSE NoHeader,
     accepted_extensions |-> r.accepted_extensions,
     calls |-> r.calls]

\* Mutant of process_extensions: the offers are walked from the last.
process_extensions_from_last(parsed_header_values, available_extensions) ==
    extensions_result(
        IF parsed_header_values # <<>> /\ available_extensions # <<>>
        THEN for_offer(Reversed(parsed_header_values), 1, available_extensions,
                       [extension_headers |-> <<>>, accepted_extensions |-> <<>>,
                        calls |-> <<>>])
        ELSE [extension_headers |-> <<>>, accepted_extensions |-> <<>>, calls |-> <<>>])

\* process_extensions, lines 467-548, on the parsed values of the request's
\* Sec-WebSocket-Extensions headers
process_extensions(parsed_header_values, available_extensions) ==
    extensions_result(
        IF parsed_header_values # <<>> /\ available_extensions # <<>>
        THEN for_offer(parsed_header_values, 1, available_extensions,
                       [extension_headers |-> <<>>, accepted_extensions |-> <<>>,
                        calls |-> <<>>])
        ELSE [extension_headers |-> <<>>, accepted_extensions |-> <<>>, calls |-> <<>>])

InitExtensions ==
    /\ InitAssembler
    /\ InitFraming
    /\ InitServer
    /\ InitClient
    /\ sub = NotCalled
    /\ \E offers \in OfferLists, available \in FactoryLists :
          ext = [called |-> TRUE, done |-> FALSE, offers |-> offers,
                 available |-> available, result |-> extensions_result(
                     [extension_headers |-> <<>>, accepted_extensions |-> <<>>,
                      calls |-> <<>>])]

\* The call of process_extensions returns.
ProcessExtensions ==
    /\ ext.called
    /\ ~ext.done
    /\ ext' = [ext EXCEPT !.done = TRUE,
                          !.result = process_extensions(ext.offers, ext.available)]
    /\ UNCHANGED sub
    /\ UNCHANGED otherThanNegotiation

NextExtensions == ProcessExtensions

SpecExtensions == InitExtensions /\ [][NextExtensions]_vars

---------------------------------------------------------------------------
(* connect and the opening handshake of the client                         *)
(* (src/websockets/sync/client.py).                                        *)

\* the arguments of connect that its code looks at
ConnectArgs ==
    [compression : {"deflate", "None", "gzip"}, sock : BOOLEAN, unix : BOOLEAN,
     path : BOOLEAN, secure : BOOLEAN, ssl_context : BOOLEAN,
     open_timeout : {"None", "finite"}]

\* connect(...) is called: nothing is created yet
NewConnect(args) ==
    [at |-> "init", args |-> args,
     sock |-> IF args.sock THEN "open" ELSE "None",
     state |-> "None", protocol |-> FALSE, request_sent |-> FALSE,
     response |-> "None", response_rcvd |-> FALSE, timeout |-> "None",
     tcp_closes |-> 0, raised |-> "none",
     recorded |-> <<>>, forwarded |-> <<>>]

InitConnect ==
    /\ InitAssembler
    /\ InitFraming
    /\ InitServer
    /\ InitNegotiation
    /\ \E args \in ConnectArgs : cli = NewConnect(args)

\* an exception leaves Connect.__init__: no statement of it catches any
connect_raises(c, exc) == [c EXCEPT !.at = "raised", !.raised = exc]

\* Deadline.timeout(): the time left, None without a deadline
deadline_timeout(c) == c.args.open_timeout

\* Protocol.tcp_close(): the socket is closed
tcp_close(c) == [c EXCEPT !.sock = "closed", !.tcp_closes = @ + 1]

\* Connect.__init__, lines 102-127: the compression is checked, the
\* ClientConnection is made in the state CONNECTING, the deadline starts.
ConnectInit ==
    /\ cli.at = "init"
    /\ cli' = IF cli.args.compression = "gzip"
              THEN connect_raises(cli, "ValueError")
              ELSE [cli EXCEPT !.at = "connect socket", !.state = "CONNECTING"]
    /\ UNCHANGED otherThanClient

\* Connect.__init__, lines 131-146: the socket is connected unless one was
\* given; connecting can fail, and does when the deadline passes first.
ConnectSocket ==
    /\ cli.at = "connect socket"
    /\ \/ /\ ~cli.args.sock
          /\ cli.args.unix
          /\ ~cli.args.path
          /\ cli' = connect_raises(cli, "TypeError")
       \/ /\ ~cli.args.sock
          /\ ~(cli.args.unix /\ ~cli.args.path)
          /\ \/ cli' = [cli EXCEPT !.at = "wrap socket", !.sock = "open"]
             \/ cli' = connect_raises(cli, "OSError")
       \/ /\ cli.args.sock
          /\ cli' = IF cli.args.path
                    THEN connect_raises(cli, "TypeError")
                    ELSE [cli EXCEPT !.at = "wrap socket"]
    /\ UNCHANGED otherThanClient

\* Connect.__init__, lines 150-157: the socket is wrapped with TLS for a wss
\* URI, which can fail; an ssl_context with a ws URI is refused.
WrapSocket ==
    /\ cli.at = "wrap socket"
    /\ \/ /\ cli.args.secure
          /\ \/ cli' = [cli EXCEPT !.at = "create protocol"]
             \/ cli' = connect_raises(cli, "SSLError")
       \/ /\ ~cli.args.secure
          /\ cli' = IF cli.args.ssl_context
                    THEN connect_raises(cli, "TypeError")
                    ELSE [cli EXCEPT !.at = "create protocol"]
    /\ UNCHANGED otherThanClient

\* Connect.__init__, lines 161-168: the ClientProtocol is created, and
\* handshake is called with the time left until the deadline.
CreateProtocol ==
    /\ cli.at = "create protocol"
    /\ cli' = [cli EXCEPT !.at = "send request", !.protocol = TRUE,
                          !.timeout = deadline_timeout(cli)]
    /\ UNCHANGED otherThanClient

\* ClientProtocol.handshake, lines 49-52: the request is sent.
HandshakeSendRequest ==
    /\ cli.at = "send request"
    /\ cli' = [cli EXCEPT !.at = "wait", !.request_sent = TRUE]
    /\ UNCHANGED otherThanClient

\* The events that follow the response in one run of SpecConnect
MaxEvents == 2

\* The events the connection hands to process_event: the response to the
\* handshake, accepted or not, then frames, a close frame among them.
Responses == {"accepted", "rejected"}
FrameEvents == {"frame", "close"}

\* The state of the connection once it has parsed the bytes of an event:
\* OPEN after a response it accepts, CONNECTING after another; a close frame
\* received takes OPEN to CLOSING and CLOSING to CLOSED.
state_after(state, event) ==
    CASE event = "accepted" /\ state = "CONNECTING" -> "OPEN"
      [] event = "close" /\ state = "OPEN" -> "CLOSING"
      [] event = "close" /\ state = "CLOSING" -> "CLOSED"
      [] OTHER -> state

\* ClientProtocol.process_event, lines 64-76: the first event is kept as the
\* response and response_rcvd is set; later events go to
\* Protocol.process_event. recorded and forwarded list the events that took
\* each branch.
process_event(c, event) ==
    IF c.response = "None"
    THEN [c EXCEPT !.response = event, !.response_rcvd = TRUE,
                   !.recorded = Append(@, event)]
    ELSE [c EXCEPT !.forwarded = Append(@, event)]

\* The thread that reads the socket gets an event from the connection, whose
\* state has followed the bytes received, and calls process_event. Frames
\* come only after a response that was accepted.
ProcessEvent ==
    /\ cli.at \in {"wait", "returned", "raised"}
    /\ cli.protocol
    /\ cli.request_sent
    /\ cli.sock = "open"
    /\ \E event \in Responses \cup FrameEvents :
          /\ event \in Responses <=> cli.response = "None"
          /\ event \in FrameEvents =>
                /\ cli.response = "accepted"
                /\ Len(cli.forwarded) < MaxEvents
          /\ cli' = process_event([cli EXCEPT !.state = state_after(@, event)], event)
    /\ UNCHANGED otherThanClient

\* ClientProtocol.handshake, lines 54-62, once response_rcvd.wait(timeout)
\* returned rcvd
handshake_after_wait(c, rcvd) ==
    IF ~rcvd
    THEN connect_raises(c, "TimeoutError")
    ELSE LET d == IF c.state # "OPEN" THEN tcp_close(c) ELSE c
         IN  IF d.response = "rejected"
             THEN connect_raises(d, "InvalidHandshake")
             ELSE [d EXCEPT !.at = "returned"]

\* ClientProtocol.handshake, lines 54-62: response_rcvd.wait(timeout) returns
\* True once the event is set, False when the timeout ends first.
HandshakeWait ==
    /\ cli.at = "wait"
    /\ \/ /\ cli.response_rcvd
          /\ cli' = handshake_after_wait(cli, TRUE)
       \/ /\ ~cli.response_rcvd
          /\ cli.timeout # "None"
          /\ cli' = handshake_after_wait(cli, FALSE)
    /\ UNCHANGED otherThanClient

NextConnect ==
    \/ ConnectInit
    \/ ConnectSocket
    \/ WrapSocket
    \/ CreateProtocol
    \/ HandshakeSendRequest
    \/ ProcessEvent
    \/ HandshakeWait

SpecConnect == InitConnect /\ [][NextConnect]_vars

---------------------------------------------------------------------------
(* What the histories say the consumer must see. *)

\* the frames of message m whose chunk put added
Added(m) == SelectSeq(m, LAMBDA f : f.ok)

\* the message's bytes: its frames' payloads, in order
Payload(m) == Concat([i \in 1..Len(m) |-> m[i].data])

IsText(m) == m # <<>> /\ m[1].opcode = "TEXT"

\* The value of message m: its payload, decoded as a whole when it is text.
ExpectedMessage(m) ==
    IF IsText(m) THEN Str(utf_8_decode(Payload(m), TRUE, <<>>).out)
    ELSE Bytes(Payload(m))

\* The chunks of message m, one per frame: the frame's data, decoded by the
\* decoder the earlier frames left when the message is text.
RECURSIVE ChunksFrom(_, _)
ChunksFrom(frames, decoder) ==
    IF frames = <<>> THEN <<>>
    ELSE LET f == Head(frames)
             d == IF decoder.isNone
                  THEN [data |-> Bytes(f.data), decoder |-> decoder]
                  ELSE decode(decoder, f.data, f.fin)
         IN <<d.data>> \o ChunksFrom(Tail(frames), d.decoder)

ExpectedChunks(m) == ChunksFrom(Added(m), IF IsText(m) THEN UTF8Decoder ELSE NoDecoder)

\* The message the buffers may hold data of: the one in progress, or else the
\* last completed one while it is not fetched.
CurrentMessage ==
    IF cur # <<>> THEN cur
    ELSE IF Len(sent) > Len(fetched) THEN sent[Len(sent)]
    ELSE <<>>

\* the chunks in chunks_queue, the None sentinels left out
QueuedChunks == SelectSeq(asm.chunks_queue.items, LAMBDA x : x # NoneVal)

IsSuffix(s, t) == Len(s) <= Len(t) /\ s = SubSeq(t, Len(t) - Len(s) + 1, Len(t))

---------------------------------------------------------------------------
(* Claims. *)

\* C1. Stream fidelity: the k-th message fetched is the k-th message put;
\* when get returned it, its value is the concatenation of the payloads of
\* the message's frames, in order (the decoded string for a text message).
\* No message is lost: put returns from a final frame only once the message
\* is fetched, and at most one complete message is waiting.
C1_StreamFidelity ==
    /\ Len(fetched) <= Len(sent)
    /\ Len(sent) <= Len(fetched) + 1
    /\ \A k \in 1..Len(fetched) :
          fetched[k].by = "get" => fetched[k].val = ExpectedMessage(sent[k])
    /\ pc["p1"] = "idle" => Len(fetched) = Len(sent)

\* C1 witness: get returned two messages, one of them a fragmented text message.
C1_Witness ==
    /\ Len(fetched) = 2
    /\ \A k \in 1..2 : fetched[k].by = "get"
    /\ \E k \in 1..2 : IsText(sent[k]) /\ Len(sent[k]) = 2

\* C2. Backpressure rendezvous: put waits only on a final frame, and while a
\* complete message is not fetched (no get returned it, no iterator over it
\* was exhausted) and close() was not called, the put that completed it has
\* not returned.
C2_Rendezvous ==
    /\ pc["p1"] = "put_wait" => loc["p1"].frame.fin
    /\ (Len(sent) > Len(fetched) /\ ~asm.closed) => pc["p1"] = "put_wait"

\* C2 witness: the put of a final frame has returned, after its message was
\* fetched, on an open assembler.
C2_Witness ==
    /\ ~asm.closed
    /\ Len(sent) = 1 /\ Len(fetched) = 1 /\ cur = <<>>
    /\ pc["p1"] = "idle" /\ ret["p1"] = [op |-> "put", out |-> "return"]

\* C3. The buffered data (chunks plus chunks_queue) belongs to one message:
\* it is the tail of the chunks of the current message, and no frame is put
\* while a complete message waits to be fetched.
C3_OneMessageBuffered ==
    /\ IsSuffix(asm.chunks \o QueuedChunks, ExpectedChunks(CurrentMessage))
    /\ Len(sent) > Len(fetched) => cur = <<>> /\ pc["p1"] = "put_wait"
    /\ Len(sent) <= Len(fetched) + 1

\* C3 witness: a first message was fetched and frames of the second are buffered.
C3_Witness ==
    /\ Len(fetched) = 1
    /\ Len(cur) = 2
    /\ Len(asm.chunks \o QueuedChunks) = 2

AllIdle == \A t \in Threads : pc[t] = "idle"

\* C4. Close unblocks everything: once close() has run, every call in
\* progress ends, and it ends by raising EOFError (a get whose timeout had
\* elapsed returns None); afterwards no call is in progress any more.
C4_CloseUnblocks ==
    /\ asm.closed ~> []AllIdle
    /\ [][asm.closed =>
            \A t \in Threads :
               (pc[t] # "idle" /\ pc'[t] = "idle") =>
                   ret'[t].out = IF pc[t] = "get_timedout" THEN "None" ELSE "EOFError"]_vars

\* C4 witness: close() has run while put waits for its message to be fetched
\* and get waits for a message.
C4_Witness ==
    /\ asm.closed
    /\ pc["p1"] = "put_wait"
    /\ pc["c1"] = "get_wait"

\* C5. After close(), every call of get, get_iter or put that starts (put of
\* a control frame included) raises EOFError at once and changes nothing in
\* the Assembler; no message is returned any more, whatever was buffered.
C5_AfterClose ==
    [][asm.closed =>
         /\ \A t \in Threads :
               (pc[t] = "idle" /\ (pc'[t] # "idle" \/ ret'[t] # ret[t])) =>
                   /\ pc'[t] = "idle"
                   /\ ret'[t].out = "EOFError"
                   /\ asm' = asm
         /\ fetched' = fetched]_vars

\* C5 witness: a complete message was not fetched when close() ran, and the
\* get and the put called afterwards both raised EOFError.
C5_Witness ==
    /\ asm.closed
    /\ asm.chunks # <<>> /\ Len(sent) > Len(fetched)
    /\ AllIdle
    /\ ret["c1"] = [op |-> "get", out |-> "EOFError"]
    /\ ret["p1"] = [op |-> "put", out |-> "EOFError"]

\* the value of joining the chunks an iterator yielded
Joined(chunks) == Concat([i \in 1..Len(chunks) |-> chunks[i].v])

\* Every message fetched so far is the message put at the same position:
\* get returned its value, get_iter yielded its chunks.
FetchedMatches ==
    \A k \in 1..Len(fetched) :
        /\ k <= Len(sent)
        /\ fetched[k].by = "get" => fetched[k].val = ExpectedMessage(sent[k])
        /\ fetched[k].by = "get_iter" => fetched[k].chunks = ExpectedChunks(sent[k])

C7_TimeoutLeavesState ==
    /\ [][\A c \in Consumers :
            (pc[c] = "get_timedout" /\ pc'[c] = "idle") =>
                /\ ret'[c] = [op |-> "get", out |-> "None"]
                /\ asm' = [asm EXCEPT !.get_in_progress = FALSE]
                /\ fetched' = fetched]_vars
    /\ [](\A k \in 1..Len(fetched) :
            fetched[k].by = "get" => fetched[k].val = ExpectedMessage(sent[k]))

\* C7 witness: get returned None on a timeout and the message, completed in
\* the meantime, is still there.
C7_Witness ==
    /\ pc["c1"] = "idle" /\ ret["c1"] = [op |-> "get", out |-> "None"]
    /\ asm.message_complete /\ ~asm.message_fetched /\ ~asm.get_in_progress
    /\ asm.chunks = ExpectedChunks(sent[Len(sent)])

\* C8. Streaming equivalence: an exhausted get_iter iterator has yielded the
\* chunks of the message, one per frame in frame order, the buffered ones
\* first, and their concatenation is the value get returns for the message;
\* an iterator in progress has yielded a prefix of them.
C8_StreamingEquivalence ==
    /\ \A k \in 1..Len(fetched) :
          fetched[k].by = "get_iter" =>
              /\ fetched[k].chunks = ExpectedChunks(sent[k])
              /\ Len(fetched[k].chunks) = Len(sent[k])
              /\ Joined(fetched[k].chunks) = ExpectedMessage(sent[k]).v
              /\ \A i \in 1..Len(fetched[k].chunks) :
                    fetched[k].chunks[i].t = ExpectedMessage(sent[k]).t
    /\ \A c \in Consumers :
          pc[c] \in {"iter", "iter_end"} =>
              loc[c].yielded \o loc[c].chunks \o QueuedChunks
                  = ExpectedChunks(CurrentMessage)

\* C8 witness: an iterator over a text message of three frames was exhausted.
C8_Witness ==
    \E k \in 1..Len(fetched) :
        /\ fetched[k].by = "get_iter"
        /\ IsText(sent[k])
        /\ Len(fetched[k].chunks) = 3

\* The data frame that the step's put accepted (when nput grows).
LastPut ==
    IF Len(cur') = Len(cur) + 1 THEN cur'[Len(cur')]
    ELSE sent'[Len(sent')][Len(sent'[Len(sent')])]

StrayContPut ==
    /\ nput' = nput + 1
    /\ ~InProgress
    /\ LastPut.opcode = "CONT"

\* C10 as claimed: put of a CONT frame when no message is in progress raises
\* and adds the frame's data to no message.
C10_Original ==
    [][StrayContPut =>
          /\ pc'["p1"] = "idle"
          /\ ret'["p1"].out \in Exceptions
          /\ asm'.chunks = asm.chunks
          /\ asm'.chunks_queue = asm.chunks_queue]_vars

\* C10 as amended: put does not reject a CONT frame when no message is in
\* progress. It handles it as any CONT frame, with the decoder as it stands:
\* None when the frames put before raised no error, and then the data is
\* added unchanged, as bytes, to chunks (to chunks_queue when streaming) and
\* starts a message that a fin=true frame completes. put raises only when a
\* decoder left by a failed text frame cannot decode the data.
C10_StrayContAccepted ==
    /\ [][StrayContPut =>
            LET f == LastPut
                d == IF asm.decoder.isNone
                     THEN [ok |-> TRUE, data |-> Bytes(f.data)]
                     ELSE decode(asm.decoder, f.data, f.fin)
                q == asm.chunks_queue.items
            IN  IF d.ok
                THEN /\ IF asm.chunks_queue.isNone
                        THEN /\ asm'.chunks = Append(asm.chunks, d.data)
                             /\ asm'.chunks_queue = asm.chunks_queue
                        ELSE /\ asm'.chunks = asm.chunks
                             /\ asm'.chunks_queue.items =
                                   IF f.fin THEN q \o <<d.data, NoneVal>>
                                   ELSE Append(q, d.data)
                     /\ IF f.fin
                        THEN pc'["p1"] = "put_wait" /\ asm'.message_complete
                        ELSE pc'["p1"] = "idle" /\ ret'["p1"].out = "return"
                ELSE /\ ret'["p1"].out = "UnicodeDecodeError"
                     /\ asm' = asm]_vars
    /\ []((pc["p1"] = "idle" /\ ~InProgress /\ \A i \in 1..Len(cur) : cur[i].ok)
             => asm.decoder.isNone)

\* C10 witness: a CONT frame put first, with fin=true, made a message that
\* get returned.
C10_Witness ==
    /\ Len(fetched) = 1
    /\ sent[1][1].opcode = "CONT"
    /\ fetched[1].by = "get"
    /\ fetched[1].val = Bytes(sent[1][1].data)

\* The step is an accepted put of a TEXT or BINARY frame while a message is
\* in progress.
MidMessagePut ==
    /\ nput' = nput + 1
    /\ InProgress
    /\ LastPut.opcode \in {"TEXT", "BINARY"}

\* C11 as claimed: put of a TEXT or BINARY frame while a message is in
\* progress raises and adds the frame's data to no message.
C11_Original ==
    [][MidMessagePut =>
          /\ pc'["p1"] = "idle"
          /\ ret'["p1"].out \in Exceptions
          /\ asm'.chunks = asm.chunks
          /\ asm'.chunks_queue = asm.chunks_queue]_vars

\* C11 as amended: put does not reject a TEXT or BINARY frame while a message
\* is in progress. It replaces the decoder (a new UTF-8 decoder for TEXT, None
\* for BINARY) and adds the frame's data, decoded by it, after the chunks the
\* message in progress left in chunks (in chunks_queue when streaming); a
\* fin=true frame completes the lot as one message. put raises only when the
\* data of a TEXT frame is not valid UTF-8, and then only the decoder changed.
\* A get of chunks of both types raises TypeError with message_complete
\* cleared and message_fetched not set.
C11_MidMessageAccepted ==
    /\ [][MidMessagePut =>
            LET f == LastPut
                dec == IF f.opcode = "TEXT" THEN UTF8Decoder ELSE NoDecoder
                d == IF dec.isNone
                     THEN [ok |-> TRUE, data |-> Bytes(f.data)]
                     ELSE decode(dec, f.data, f.fin)
                q == asm.chunks_queue.items
            IN  IF d.ok
                THEN /\ IF asm.chunks_queue.isNone
                        THEN /\ asm'.chunks = Append(asm.chunks, d.data)
                             /\ asm'.chunks_queue = asm.chunks_queue
                        ELSE /\ asm'.chunks = asm.chunks
                             /\ asm'.chunks_queue.items =
                                   IF f.fin THEN q \o <<d.data, NoneVal>>
                                   ELSE Append(q, d.data)
                     /\ IF f.fin
                        THEN pc'["p1"] = "put_wait" /\ asm'.message_complete
                        ELSE pc'["p1"] = "idle" /\ ret'["p1"].out = "return"
                ELSE /\ ret'["p1"].out = "UnicodeDecodeError"
                     /\ asm' = [asm EXCEPT !.decoder = UTF8Decoder]]_vars
    /\ [][\A c \in Consumers :
            (pc[c] = "get_wait" /\ pc'[c] = "idle" /\ ret'[c].out = "TypeError") =>
                /\ \E i, j \in 1..Len(asm.chunks) : asm.chunks[i].t # asm.chunks[j].t
                /\ asm'.chunks = asm.chunks
                /\ ~asm'.message_complete /\ ~asm'.message_fetched]_vars

\* C11 witness: a TEXT frame put in the middle of a binary message was added
\* to its chunks and completed it.
C11_Witness ==
    /\ asm.message_complete
    /\ Len(asm.chunks) = 2
    /\ asm.chunks[1].t = "bytes" /\ asm.chunks[2].t = "str"
    /\ Len(sent) = 1 /\ sent[1][1].opcode = "BINARY" /\ sent[1][2].opcode = "TEXT"

\* The step is a put of a control frame by p1, or leaves everything as it is:
\* p1's last finished call is a put of a control frame, and the step is not
\* close(), not the put of a data frame, not a step of a consumer.
ControlPut ==
    /\ pc["p1"] = "idle"
    /\ ret'["p1"].op = "put_control"
    /\ asm'.closed = asm.closed
    /\ nput' = nput
    /\ \A c \in Consumers : pc'[c] = pc[c] /\ loc'[c] = loc[c] /\ ret'[c] = ret[c]

\* C12. Control frames do not disturb defragmentation: on an open assembler a
\* put of a PING, PONG or CLOSE frame returns at once and changes nothing in
\* the Assembler (decoder, chunks, chunks_queue, events, flags), and every
\* message fetched is the message its data frames make, whatever control
\* frames were put between them.
C12_ControlFramesIgnored ==
    /\ [][(ControlPut /\ ~asm.closed) =>
            /\ asm' = asm
            /\ pc'["p1"] = "idle"
            /\ ret'["p1"] = [op |-> "put_control", out |-> "return"]
            /\ <<cur, sent, fetched>>' = <<cur, sent, fetched>>]_vars
    /\ []FetchedMatches

\* C12 witness: get returned a text message of two frames, and the call of
\* put that p1 finished last, before the put of the final frame that it is
\* still in, was the put of a control frame.
C12_Witness ==
    /\ ~asm.closed
    /\ Len(fetched) = 1 /\ fetched[1].by = "get"
    /\ IsText(sent[1]) /\ Len(sent[1]) = 2
    /\ sent[1][1].data = <<195>> /\ sent[1][2].data = <<169>>
    /\ fetched[1].val = Str(<<233>>)
    /\ pc["p1"] = "put_wait"
    /\ ret["p1"] = [op |-> "put_control", out |-> "return"]

\* The message that the data frame accepted in the step belongs to, up to and
\* including that frame.
MessageOfPut ==
    IF Len(cur') = Len(cur) + 1 THEN cur' ELSE sent'[Len(sent')]

\* C13. For a TEXT message, put raises on the first frame with which the bytes
\* of the message so far are not valid UTF-8: an invalid byte, or an
\* incomplete sequence when the frame has fin=true (an incomplete sequence at
\* the end of a fin=false frame is held back, not an error). The put that
\* raises appends nothing to chunks nor chunks_queue and does not set
\* message_complete, and once the reader thread has got the exception get
\* returns no message any more.
C13_InvalidUTF8 ==
    /\ [][(nput' = nput + 1 /\ IsText(MessageOfPut)) =>
            LET f == LastPut
                valid == utf_8_decode(Payload(MessageOfPut), f.fin, <<>>).ok
            IN  IF valid
                THEN /\ f.ok
                     /\ IF f.fin THEN pc'["p1"] = "put_wait" /\ asm'.message_complete
                        ELSE pc'["p1"] = "idle" /\ ret'["p1"].out = "return"
                ELSE /\ pc'["p1"] = "idle"
                     /\ ret'["p1"] = [op |-> "put", out |-> "UnicodeDecodeError"]
                     /\ asm'.chunks = asm.chunks
                     /\ asm'.chunks_queue = asm.chunks_queue
                     /\ ~asm'.message_complete
                     /\ asm' = [asm EXCEPT !.decoder = asm'.decoder]]_vars
    /\ [](ret["p1"].out = "UnicodeDecodeError" =>
            /\ ~asm.message_complete
            /\ Len(fetched) = Len(sent)
            /\ cur # <<>> /\ ~cur[Len(cur)].ok
            /\ \A i \in 1..(Len(cur) - 1) : cur[i].ok)
    /\ [][ret["p1"].out = "UnicodeDecodeError" =>
            fetched' = fetched /\ sent' = sent /\ cur' = cur]_vars

\* C13 witness: the second frame of a text message, with fin=true, does not
\* continue the sequence that the first frame began; its put raised, the
\* first frame's chunk is all that is buffered, and a get is waiting.
C13_Witness ==
    /\ ret["p1"] = [op |-> "put", out |-> "UnicodeDecodeError"]
    /\ Len(cur) = 2 /\ cur[1].opcode = "TEXT"
    /\ cur[1].data = <<195>> /\ cur[2].data = <<97>> /\ cur[2].fin
    /\ asm.chunks = <<Str(<<>>)>>
    /\ pc["c1"] = "get_wait"

---------------------------------------------------------------------------
(* Claims about Frame.read.                                                *)

\* The call of read ended and its stream held a header: its two bytes.
HeaderRead == rd.called /\ rd.done /\ Len(rd.stream) >= 2
MaskBit == Bit(rd.stream[2], 7) = 1
Len7 == rd.stream[2] % 128
DefinedOpcode == OpcodeOf(rd.stream[1] % 16) # "ValueError"

\* C14. Masking rule: when the mask bit of the header differs from the mask
\* parameter, read raises ProtocolError and returns no frame, having called
\* reader once, for the two header bytes: no length extension, no mask key
\* and no payload was read. (The error is "incorrect masking" when the opcode
\* is defined; an undefined opcode is reported first.)
C14_MaskingRule ==
    (HeaderRead /\ MaskBit # rd.mask) =>
        /\ rd.result.out = "ProtocolError"
        /\ rd.result.msg = IF DefinedOpcode THEN "incorrect masking" ELSE "invalid opcode"
        /\ rd.result.frame = NoFrameRead
        /\ rd.result.asked = <<Num(2)>>
        /\ rd.result.nread = 2
        /\ rd.result.calls = <<>>

\* C14 witness: an unmasked frame at the server, with an 8-byte length, a
\* max_size below it and payload bytes behind it, was refused for its masking.
C14_Witness ==
    /\ HeaderRead /\ rd.mask /\ ~MaskBit /\ Len7 = 127
    /\ Len(rd.stream) > 10
    /\ ~rd.max_size.isNone
    /\ rd.result.msg = "incorrect masking"
    /\ rd.result.nread = 2

\* The stream holds the whole length: the bytes that len7 announces.
LengthDeclared ==
    Len(rd.stream) >= (IF Len7 = 126 THEN 4 ELSE IF Len7 = 127 THEN 10 ELSE 2)

\* The declared payload length, in the 7-bit, 16-bit or 64-bit form.
DeclaredLength ==
    IF Len7 = 126 THEN <<0, 0, 0, 0, 0, 0>> \o SubSeq(rd.stream, 3, 4)
    ELSE IF Len7 = 127 THEN SubSeq(rd.stream, 3, 10)
    ELSE Num(Len7)

\* The order of the numbers that eight digits stand for, by their value in
\* three parts (each below 2^24).
TopPart(a) == a[1] * 256 + a[2]
MidPart(a) == a[3] * 65536 + a[4] * 256 + a[5]
LowPart(a) == a[6] * 65536 + a[7] * 256 + a[8]
Greater(a, b) ==
    \/ TopPart(a) > TopPart(b)
    \/ TopPart(a) = TopPart(b) /\ MidPart(a) > MidPart(b)
    \/ TopPart(a) = TopPart(b) /\ MidPart(a) = MidPart(b) /\ LowPart(a) > LowPart(b)

\* C15. Size limit: for a header with a defined opcode and the expected mask
\* bit, read raises PayloadTooBig exactly when max_size is not None and the
\* declared length, in any of its three forms, is greater than max_size (a
\* length equal to max_size goes on to the mask key and the payload), and it
\* raises it before any mask key or payload byte is read.
C15_SizeLimit ==
    (HeaderRead /\ DefinedOpcode /\ MaskBit = rd.mask /\ LengthDeclared) =>
        /\ rd.result.out = "PayloadTooBig"
              <=> (~rd.max_size.isNone /\ Greater(DeclaredLength, rd.max_size.v))
        /\ rd.result.out = "PayloadTooBig" =>
              /\ rd.result.frame = NoFrameRead
              /\ rd.result.nread = (IF Len7 = 126 THEN 4 ELSE IF Len7 = 127 THEN 10 ELSE 2)
              /\ Len(rd.result.asked) = (IF Len7 >= 126 THEN 2 ELSE 1)
        /\ rd.result.out # "PayloadTooBig" =>
              rd.result.asked[Len(rd.result.asked)] \in {Num(4), DeclaredLength}

\* C15 witness: a frame whose declared length is max_size was returned.
C15_Witness ==
    /\ HeaderRead /\ LengthDeclared
    /\ rd.max_size = MaxSize(Num(1)) /\ DeclaredLength = Num(1)
    /\ rd.result.out = "Frame"
    /\ Len(rd.result.frame.data) = 1

\* C16 as claimed: a frame in the 8-byte length form whose 64-bit length has
\* its most significant bit set (a length of 2^63 or more) is refused with a
\* ProtocolError, whatever max_size is.
C16_LengthMSB ==
    (/\ HeaderRead /\ DefinedOpcode /\ MaskBit = rd.mask
     /\ Len7 = 127 /\ LengthDeclared
     /\ rd.stream[3] >= 128) =>
        rd.result.out = "ProtocolError"

\* The call of read got as far as the payload: the header is accepted, the
\* length is in the 7-bit form and within max_size, and the stream holds the
\* mask key and the payload.
KeyLen == IF rd.mask THEN 4 ELSE 0
PayloadRead ==
    /\ HeaderRead /\ DefinedOpcode /\ MaskBit = rd.mask
    /\ Len7 < 126
    /\ rd.max_size.isNone \/ ~Greater(Num(Len7), rd.max_size.v)
    /\ Len(rd.stream) >= 2 + KeyLen + Len7

\* The frame as it is on the wire, before any extension.
WireFrame ==
    LET bytes == SubSeq(rd.stream, 3 + KeyLen, 2 + KeyLen + Len7)
    IN  NewFrame(OpcodeOf(rd.stream[1] % 16),
                 IF rd.mask THEN apply_mask(bytes, SubSeq(rd.stream, 3, 6)) ELSE bytes,
                 Bit(rd.stream[1], 7) = 1, Bit(rd.stream[1], 6) = 1,
                 Bit(rd.stream[1], 5) = 1, Bit(rd.stream[1], 4) = 1)

OnlyRsv(frame, bit) ==
    /\ frame.rsv1 = (bit = 1) /\ frame.rsv2 = (bit = 2) /\ frame.rsv3 = (bit = 3)

---------------------------------------------------------------------------
(* Claims about Frame.write. *)

\* the frames the calls of Frame.write put on the wire, in the order of the calls
RECURSIVE WrittenFrames(_)
WrittenFrames(calls) ==
    IF calls = <<>> THEN <<>>
    ELSE IF Head(calls).out = "None"
         THEN <<Head(calls).frame>> \o WrittenFrames(Tail(calls))
         ELSE WrittenFrames(Tail(calls))

\* the bytes on the wire: the buffers of the write callback, end to end
RECURSIVE WireBytes(_)
WireBytes(buffers) ==
    IF buffers = <<>> THEN <<>> ELSE Head(buffers) \o WireBytes(Tail(buffers))

\* what the peer of the connection reads in a buffer
PeerRead(stream) == read(stream, conn.mask, NoMaxSize, conn.extensions)

\* the frames the peer reads from a stream, one after the other; a stream
\* that does not parse to its end yields a last entry that is no frame
RECURSIVE PeerFrames(_)
PeerFrames(stream) ==
    IF stream = <<>> THEN <<>>
    ELSE LET r == PeerRead(stream) IN
         IF r.out # "Frame" \/ r.nread = 0 THEN <<r.out>>
         ELSE <<r.frame>> \o PeerFrames(SubSeq(stream, r.nread + 1, Len(stream)))

\* C17: Frame.write calls the write callback exactly once per frame, with the
\* whole serialized frame (header, mask key if any, payload) in one buffer,
\* so that whichever senders wrote, in whichever order, the wire is the frames
\* end to end in the order of the calls and never a mix of two frames: the
\* wire holds one buffer per frame written, each buffer reads back as exactly
\* its frame with no byte left over, and the bytes of the wire read back as
\* the frames written. A call that raises ProtocolError, on a frame that
\* Frame.check refuses, makes no call of the callback.
C17_OneWritePerFrame ==
    /\ Len(wire) = Len(WrittenFrames(wrote))
    /\ \A i \in 1..Len(wire) : \A r \in {PeerRead(wire[i])} :
          /\ r.out = "Frame"
          /\ r.frame = WrittenFrames(wrote)[i]
          /\ r.nread = Len(wire[i])
    /\ PeerFrames(WireBytes(wire)) = WrittenFrames(wrote)
    /\ \A i \in 1..Len(wrote) :
          wrote[i].out = (IF check(wrote[i].frame) = "" THEN "None" ELSE "ProtocolError")

\* Two senders have each written a frame on a masking connection with an
\* extension, one of the frames with the 16-bit length form.
C17_Witness ==
    /\ Len(wrote) = 2
    /\ Len(wire) = 2
    /\ wrote[1].sender # wrote[2].sender
    /\ conn.mask
    /\ conn.extensions # <<>>
    /\ Len(wrote[1].frame.data) = 126
    /\ Len(wrote[2].frame.data) = 2
    /\ wire[2][3] # 0

---------------------------------------------------------------------------
(* Claims about the server's handler. *)

\* the status the response to a failed handshake is to have, by the kind of
\* the exception
StatusFor(exc) ==
    CASE exc.kind = "InvalidOrigin" -> 403
      [] exc.kind = "InvalidUpgrade" -> 426
      [] exc.kind \in {"InvalidHeader", "NegotiationError", "InvalidMessage"} -> 400
      [] exc.kind = "AbortHandshake" -> exc.status
      [] OTHER -> 500

\* the handler of a connection wrote the one response whose status goes with
\* what handshake raised, and closes the transport and returns, with no call
\* of ws_handler and no close frame; it ends otherwise only by being
\* cancelled while it closes the transport
AnsweredByStatus(w) ==
    /\ w.responses = <<StatusFor(w.raised)>>
    /\ w.at \in {"close_transport", "done"}
    /\ w.at = "done" => w.exit \in {"handshake failed", "close_transport cancelled"}
    /\ w.exit = "handshake failed" => w.transport = "closed"
    /\ w.state # "OPEN"
    /\ w.ws_handler = 0
    /\ w.close_frames = <<>>

\* the handler of a connection wrote no response, called no ws_handler, sent
\* no close frame, and ended
NotAnswered(w) ==
    /\ w.responses = <<>>
    /\ w.at = "done"
    /\ w.state # "OPEN"
    /\ w.ws_handler = 0
    /\ w.close_frames = <<>>

\* C19 as stated: whenever handshake raised, a ConnectionError gets no
\* response and every other exception gets exactly one error response, with
\* the status of its kind (403 InvalidOrigin, 426 InvalidUpgrade, 400 other
\* InvalidHandshake, its own status AbortHandshake, 500 otherwise), after
\* which the transport is closed, without ws_handler and without close frame.
C19_Original ==
    \A k \in Conns :
        ws[k].raised # NoExc =>
            IF ws[k].raised.kind = "ConnectionResetError"
            THEN NotAnswered(ws[k])
            ELSE AnsweredByStatus(ws[k])

\* C19, amended: the same, except that a handshake that was cancelled
\* (CancelledError) gets no response either: the handler raises it again as
\* it does a ConnectionError.
C19_HandshakeErrorResponse ==
    \A k \in Conns :
        ws[k].raised # NoExc =>
            IF ws[k].raised.kind \in {"ConnectionResetError", "CancelledError"}
            THEN NotAnswered(ws[k])
            ELSE AnsweredByStatus(ws[k])

\* One handler answered an InvalidOrigin with 403 and returned; the other
\* one's handshake ended with a ConnectionError.
C19_Witness ==
    /\ ws["k1"].raised.kind = "InvalidOrigin"
    /\ ws["k1"].responses = <<403>>
    /\ ws["k1"].at = "done"
    /\ ws["k2"].raised.kind = "ConnectionResetError"
    /\ ws["k2"].at = "done"

\* C20: a connection whose handshake asks is_serving() once the close task
\* has closed the asyncio server is answered 503 and nothing else, whatever
\* the request was and whatever process_request returned: handshake raises
\* AbortHandshake with that status, the connection is never OPEN and
\* ws_handler is never called.
C20_RejectedWhenClosing ==
    \A k \in Conns :
        ws[k].checked = "stopped" =>
            /\ srv.server_closes > 0
            /\ ws[k].raised.kind = "AbortHandshake"
            /\ ws[k].raised.status = 503
            /\ ws[k].responses = <<503>>
            /\ ws[k].state # "OPEN"
            /\ ws[k].ws_handler = 0
            /\ ws[k].at \in {"close_transport", "done"}

\* After the server's close, one connection that process_request let
\* through and one with a response of process_request
\* have both been answered 503 and closed.
C20_Witness ==
    /\ ws["k1"].checked = "stopped"
    /\ ws["k1"].process_request = "returned"
    /\ ws["k1"].early = NoResponse
    /\ ws["k1"].responses = <<503>>
    /\ ws["k1"].at = "done"
    /\ ws["k2"].checked = "stopped"
    /\ ~ws["k2"].early.none
    /\ ws["k2"].responses = <<503>>

\* handshake went on after process_request: the request was validated, and
\* the connection is answered 101 and handed to ws_handler if nothing is
\* wrong with the request, and handshake raised what is wrong otherwise
HandshakeContinued(w) ==
    IF w.request = "none"
    THEN /\ w.raised = NoExc
         /\ w.responses = <<101>>
         /\ w.ws_handler = 1
    ELSE /\ w.raised.kind = w.request
         /\ w.ws_handler = 0

\* the response that process_request returned is the one response written,
\* status and body, the request not being validated, and the connection is
\* closed without ever being OPEN
EarlyResponseSent(w) ==
    /\ w.raised.kind = "AbortHandshake"
    /\ w.request = "not validated"
    /\ w.responses = <<w.early.status>>
    /\ w.bodies = <<w.early.body>>
    /\ w.ws_handler = 0
    /\ w.at \in {"close_transport", "done"}
    /\ w.at = "done" => w.exit \in {"handshake failed", "close_transport cancelled"}
    /\ w.exit = "handshake failed" => w.transport = "closed"

---------------------------------------------------------------------------
(* Claims about the server's close. *)

C23_CloseIdempotent ==
    /\ srv.close_tasks = (IF srv.close_calls > 0 THEN 1 ELSE 0)
    /\ srv.close_task = "None" <=> srv.close_calls = 0
    /\ srv.server_closes <= 1
    /\ srv.server_closes = (IF srv.close_task \in {"None", "created"} THEN 0 ELSE 1)
    /\ srv.set_results <= 1
    /\ srv.set_results = (IF srv.close_task = "done" THEN 1 ELSE 0)

\* close was called more than once, the close task ran to its end and closed
\* an open connection.
C23_Witness ==
    /\ srv.close_calls > 1
    /\ srv.close_task = "done"
    /\ srv.set_results = 1
    /\ ws["k1"].close_frames = <<1001>>

\* C24: a handler that has exited, by whichever path (handshake failure,
\* ConnectionError during the handshake, ws_handler returning or raising,
\* close() raising, cancellation of the handler task), has closed the
\* transport of its connection.
C24_TransportClosedOnExit ==
    \A k \in Conns : ws[k].at = "done" => ws[k].transport = "closed"

---------------------------------------------------------------------------
(* Claims about the negotiation. *)

\* the subprotocols that both lists of the call hold
Common ==
    {p \in Subprotocols : /\ \E i \in 1..Len(sub.client) : sub.client[i] = p
                          /\ \E j \in 1..Len(sub.server) : sub.server[j] = p}

\* the first place of p in a list
FirstAt(list, p) ==
    CHOOSE i \in 1..Len(list) : list[i] = p /\ \A j \in 1..(i - 1) : list[j] # p

\* the sum of the first places of p in the two lists of the call
PlaceSum(p) == FirstAt(sub.client, p) + FirstAt(sub.server, p)

\* C26: without a selector, select_subprotocol returns None exactly when the
\* two lists share no subprotocol, and otherwise a subprotocol of both lists
\* whose first indexes in the two lists have the least sum among the shared
\* ones; with a selector it returns what the selector returns, shared or not.
C26_DefaultSubprotocol ==
    (sub.called /\ sub.done) =>
        IF sub.selector = "None"
        THEN /\ sub.result = "None" <=> Common = {}
             /\ sub.result # "None" =>
                   /\ sub.result \in Common
                   /\ \A q \in Common : PlaceSum(sub.result) <= PlaceSum(q)
        ELSE sub.result = custom_select(sub.selector, sub.client, sub.server)

\* Without a selector, the client prefers chat and the server superchat, with
\* mqtt between: superchat has the least sum and is returned.
C26_Witness ==
    /\ sub.called
    /\ sub.done
    /\ sub.selector = "None"
    /\ sub.client = <<"chat", "superchat">>
    /\ sub.server = <<"superchat", "mqtt", "chat">>
    /\ sub.result = "superchat"

\* The factories of the offer's name that accept it when given the list given
AcceptingFactories(offer, given) ==
    {j \in 1..Len(ext.available) :
        /\ ext.available[j].name = offer.name
        /\ process_request_params(ext.available[j], offer.params, given).raised = "none"}

\* The extensions accepted from the first n offers: each offer adds the
\* extension of the first factory that accepts it, if there is one.
RECURSIVE AcceptedFrom(_)
AcceptedFrom(n) ==
    IF n = 0 THEN <<>>
    ELSE LET before == AcceptedFrom(n - 1)
             S == AcceptingFactories(ext.offers[n], before)
         IN  IF S = {} THEN before
             ELSE LET j == CHOOSE j \in S : \A i \in S : j <= i
                  IN  Append(before,
                        process_request_params(ext.available[j], ext.offers[n].params,
                                               before).extension)

\* C27: process_extensions walks the offers in the order of the header; each
\* offer adds at most one extension, made by the first factory of its name, in
\* the server's order, that does not raise NegotiationError; every factory
\* tried is given the extensions accepted from the earlier offers; the
\* accepted list and the response header are in the order of the offers, and
\* the response header is None exactly when nothing was accepted.
C27_ExtensionsInClientOrder ==
    (ext.called /\ ext.done) =>
        LET r == ext.result
            accepted == r.accepted_extensions
        IN  /\ accepted = AcceptedFrom(Len(ext.offers))
            /\ \A c \in 1..Len(r.calls) :
                   /\ r.calls[c].accepted_extensions = AcceptedFrom(r.calls[c].offer - 1)
                   /\ ext.available[r.calls[c].factory].name
                        = ext.offers[r.calls[c].offer].name
                   /\ r.calls[c].raised = "none" =>
                        r.calls[c].factory \in
                            AcceptingFactories(ext.offers[r.calls[c].offer],
                                               r.calls[c].accepted_extensions)
                   /\ \A d \in 1..(c - 1) :
                        \/ r.calls[d].offer < r.calls[c].offer
                        \/ /\ r.calls[d].offer = r.calls[c].offer
                           /\ r.calls[d].factory < r.calls[c].factory
                           /\ r.calls[d].raised = "NegotiationError"
            /\ r.response_header_value.none <=> accepted = <<>>
            /\ Len(r.response_header_value.value) = Len(accepted)
            /\ \A i \in 1..Len(accepted) :
                   r.response_header_value.value[i]
                     = <<accepted[i].name, <<accepted[i].rule, accepted[i].params>>>>
            /\ Len(accepted) <= Len(ext.offers)

\* two offers of different names are accepted, one of them by the second
\* factory after the first one of its name raised NegotiationError
C27_Witness ==
    /\ ext.called /\ ext.done
    /\ Len(ext.result.accepted_extensions) = 2
    /\ ext.result.accepted_extensions[1].name # ext.result.accepted_extensions[2].name
    /\ \E c \in 1..Len(ext.result.calls) : ext.result.calls[c].raised = "NegotiationError"
    /\ ~ext.result.response_header_value.none

---------------------------------------------------------------------------
(* Claims about the client's opening handshake. *)

\* handshake raised TimeoutError: no response came within the timeout
HandshakeTimedOut == cli.at = "raised" /\ cli.raised = "TimeoutError"

\* C28: when the response to the handshake does not come within the timeout,
\* handshake raises TimeoutError and the connection is failed: the socket is
\* closed by tcp_close, the connection is not left CONNECTING with an open
\* socket.
C28_TimeoutFailsConnection ==
    HandshakeTimedOut =>
        /\ cli.sock = "closed"
        /\ cli.tcp_closes > 0
        /\ ~(cli.state = "CONNECTING" /\ cli.sock = "open")

---------------------------------------------------------------------------
(* Claims about closing twice and about two producers. *)

\* C29: close() on a closed assembler changes nothing: no event is set again,
\* no None is added to chunks_queue, so every later get, get_iter and put
\* ends as it does after one close().
C29_CloseIdempotent ==
    [][\A t \in Threads : (asm.closed /\ CloseBy(t)) => asm' = asm]_vars

\* both threads have called close(), the second while the consumer was still
\* inside get_iter
C29_Witness ==
    /\ ret["p2"].op = "close"
    /\ ret["c2"].op = "close"
    /\ asm.closed
    /\ asm.get_in_progress
    /\ ~asm.chunks_queue.isNone

\* What a put by p that starts while a put is in progress leaves alone: the
\* assembler, and the other threads, the one waiting in put among them.
RejectedPutChangesNothing(p) ==
    /\ asm' = asm
    /\ \A q \in Threads \ {p} : pc'[q] = pc[q] /\ loc'[q] = loc[q] /\ ret'[q] = ret[q]
    /\ pc'[p] = "idle"
    /\ UNCHANGED <<nput, cur, sent, fetched>>

---------------------------------------------------------------------------
(* Claims about the end of an iterator and about progress. *)

\* the iterator of c is exhausted by this step: get_iter's last block ran to
\* its end
Exhausts(c) == IterEnd(c) /\ ret'[c] = [op |-> "get_iter", out |-> "StopIteration"]

\* buffering mode, no fetch in progress, message_fetched set
BackToBuffering(a) ==
    /\ a.chunks_queue.isNone
    /\ a.chunks = <<>>
    /\ ~a.get_in_progress
    /\ ~a.message_complete
    /\ a.message_fetched

\* C31: when an iterator of get_iter is exhausted on an open assembler, the
\* assembler is back in buffering mode with message_fetched set; the put that
\* waits on the final frame then returns with the decoder reset to None, and
\* the next call of get or of get_iter is accepted.
C31_IteratorExhausted ==
    /\ [][\A c \in Consumers : Exhausts(c) =>
            /\ ~asm.closed
            /\ BackToBuffering(asm')
            /\ pc["p1"] = "put_wait"
            /\ put_exit(asm') = Outcome([asm' EXCEPT !.put_in_progress = FALSE,
                                                     !.message_fetched = FALSE,
                                                     !.decoder = NoDecoder], "return")
            /\ get_enter(asm').out = "wait"
            /\ get_iter_enter(asm').out = "iterate"]_vars
    /\ (/\ ret["c1"] = [op |-> "get_iter", out |-> "StopIteration"]
        /\ asm.message_fetched
        /\ pc["p1"] = "put_wait")
          ~> (pc["p1"] = "idle" /\ ret["p1"] = [op |-> "put", out |-> "return"]
              /\ asm.decoder = NoDecoder)

\* an iterator was exhausted, the put returned, and the next message was
\* fetched by get
C31_Witness ==
    /\ Len(fetched) = 2
    /\ fetched[1].by = "get_iter"
    /\ fetched[2].by = "get"
    /\ ret["p1"] = [op |-> "put", out |-> "return"]
    /\ asm.decoder = NoDecoder

---------------------------------------------------------------------------
(* Claims about the registration of the connections and their states. *)

\* connection_made has run for k and its handler task is not done
HandlerAlive(k) == ws[k].at \notin {"unmade", "done"}

Switched(w) == \E i \in 1..Len(w.responses) : w.responses[i] = 101

\* C33: a connection becomes OPEN only from CONNECTING, in the step that ends
\* a handshake that did not raise, and after the 101 response was written;
\* ws_handler is called only on a connection opened this way; a connection
\* whose handshake raised was never OPEN.
C33_OpenOnlyAfterHandshake ==
    /\ [][\A k \in Conns :
            (ws[k].state # "OPEN" /\ ws'[k].state = "OPEN") =>
                /\ ws[k].state = "CONNECTING"
                /\ ws[k].at = "process_request"
                /\ ws'[k].responses = Append(ws[k].responses, 101)
                /\ ws'[k].raised = NoExc
                /\ ws'[k].request = "none"
                /\ ws'[k].at = "ws_handler"]_vars
    /\ [](\A k \in Conns :
            /\ ws[k].state \in {"OPEN", "CLOSING"} => Switched(ws[k])
            /\ ws[k].ws_handler > 0 =>
                  Switched(ws[k]) /\ ws[k].raised = NoExc /\ ws[k].ws_handler = 1
            /\ Switched(ws[k]) => ws[k].responses = <<101>> /\ ws[k].ws_handler = 1
            /\ ws[k].raised # NoExc =>
                  /\ ~Switched(ws[k])
                  /\ ws[k].state \in {"CONNECTING", "CLOSED"}
                  /\ ws[k].ws_handler = 0)

\* one connection is OPEN inside ws_handler, the handshake of the other
\* failed on its request and was answered
C33_Witness ==
    /\ ws["k1"].state = "OPEN"
    /\ ws["k1"].at = "ws_handler"
    /\ ws["k2"].raised.kind = "InvalidOrigin"
    /\ ws["k2"].responses = <<403>>

---------------------------------------------------------------------------
(* Claims about the order of the checks and of the reads of Frame.read. *)

\* the declared length is over max_size
OverMaxSize == ~rd.max_size.isNone /\ Greater(DeclaredLength, rd.max_size.v)

\* the errors of the validation that follows the decoding by the extensions
CheckErrors == {"reserved bits must be 0", "control frame too long",
                "fragmented control frame"}

\* C34 as stated, for its two examples: a header with an undefined opcode and
\* an unexpected mask bit is refused for its masking, and one with an
\* undefined opcode and a declared length over max_size with PayloadTooBig.
C34_Original ==
    (HeaderRead /\ ~DefinedOpcode) =>
        /\ MaskBit # rd.mask =>
              rd.result.out = "ProtocolError" /\ rd.result.msg = "incorrect masking"
        /\ (MaskBit = rd.mask /\ LengthDeclared /\ OverMaxSize) =>
              rd.result.out = "PayloadTooBig"

\* C34: read checks, in this order, that the opcode of the header is defined,
\* the masking bit, max_size, and after unmasking and decoding by the
\* extensions the reserved bits and the rules of control frames; the first
\* check that fails gives the error.
C34_CheckOrder ==
    HeaderRead =>
        /\ ~DefinedOpcode =>
              rd.result.out = "ProtocolError" /\ rd.result.msg = "invalid opcode"
        /\ (DefinedOpcode /\ MaskBit # rd.mask) =>
              rd.result.out = "ProtocolError" /\ rd.result.msg = "incorrect masking"
        /\ (DefinedOpcode /\ MaskBit = rd.mask /\ LengthDeclared /\ OverMaxSize) =>
              rd.result.out = "PayloadTooBig"
        /\ rd.result.msg \in CheckErrors =>
              /\ rd.result.out = "ProtocolError"
              /\ DefinedOpcode /\ MaskBit = rd.mask /\ LengthDeclared /\ ~OverMaxSize
              /\ rd.result.asked[Len(rd.result.asked)] = DeclaredLength

\* a non-final control frame with a reserved bit set, its length over
\* max_size, is refused with PayloadTooBig
C34_Witness ==
    /\ HeaderRead /\ DefinedOpcode /\ MaskBit = rd.mask /\ LengthDeclared
    /\ OpcodeOf(rd.stream[1] % 16) \in CtrlOpcodes
    /\ Bit(rd.stream[1], 7) = 0
    /\ Bit(rd.stream[1], 6) = 1
    /\ rd.result.out = "PayloadTooBig"

---------------------------------------------------------------------------
(* Claims about the assert statements. *)

---------------------------------------------------------------------------
(* Claims about progress. *)

\* the producer waits for an event that is not set
ProducerBlocked == pc["p1"] = "put_wait" /\ ~asm.message_fetched

\* the consumer waits for an event that is not set, or for a queue that is
\* empty
ConsumerBlocked ==
    \/ pc["c1"] = "get_wait" /\ ~asm.message_complete
    \/ /\ pc["c1"] = "iter"
       /\ loc["c1"].chunks = <<>>
       /\ asm.chunks_queue.items = <<>>

\* C36: with a producer of a well-formed stream and a consumer that keeps
\* fetching, both threads being scheduled and close() never called, every put
\* that waits on a final frame returns, every completed message is returned
\* to the consumer, and the two threads are never both blocked.
C36_Progress ==
    /\ pc["p1"] = "put_wait" ~>
          (pc["p1"] = "idle" /\ ret["p1"] = [op |-> "put", out |-> "return"])
    /\ \A n \in 1..MaxPutsFair : (Len(sent) >= n) ~> (Len(fetched) >= n)
    /\ [](~(ProducerBlocked /\ ConsumerBlocked))

\* the producer waits on the final frame of the second message while the
\* consumer has not started to fetch it
C36_Witness ==
    /\ Len(sent) = 2
    /\ Len(fetched) = 1
    /\ ProducerBlocked
    /\ pc["c1"] = "idle"

\* Claims about an iterator that is dropped before its end

\* the consumer has stopped iterating an iterator that had yielded a chunk
Abandoned == pc["c1"] = "idle" /\ loc["c1"].yielded # <<>>

\* the producer is in the wait of the put of a message's final frame
FinalPutWaits == pc["p1"] = "put_wait" /\ loc["p1"].frame.fin

\* C37: once the consumer has stopped iterating an iterator of get_iter
\* before its end, the assembler stays in streaming mode with get_in_progress
\* true; until close() is called, every call of get and of get_iter raises
\* RuntimeError, message_fetched is not set, and the put of the final frame of
\* the message waits: it leaves its wait only after close().
C37_AbandonedIterator ==
    /\ [](Abandoned =>
            /\ asm.get_in_progress
            /\ ~asm.chunks_queue.isNone
            /\ ~asm.closed =>
                  /\ ~asm.message_fetched
                  /\ get_enter(asm).out = "RuntimeError"
                  /\ get_iter_enter(asm).out = "RuntimeError"
                  /\ ~ENABLED PutWake("p1"))
    /\ [][Abandoned =>
            /\ Abandoned'
            /\ (~asm.closed /\ ret'["c1"] # ret["c1"]) =>
                  ret'["c1"].out = "RuntimeError"
            /\ (~asm'.closed /\ ~asm.message_complete /\ asm'.message_complete)
                  => FinalPutWaits'
            /\ (FinalPutWaits /\ ~FinalPutWaits') => asm.closed]_vars

\* after the iterator was dropped the final frame was put and waits, and a
\* later call of the consumer raised RuntimeError, with the assembler open
C37_Witness ==
    /\ Abandoned
    /\ ~asm.closed
    /\ FinalPutWaits
    /\ ret["c1"].out = "RuntimeError"

\* Claims about the bytes Frame.read asks its reader for

\* the request for the extension of the length, if the header announces one
ExtendedLengthAsked ==
    IF Len7 = 126 THEN <<Num(2)>> ELSE IF Len7 = 127 THEN <<Num(8)>> ELSE <<>>

\* the request for the mask key, if the frame is masked
MaskKeyAsked == IF rd.mask THEN <<Num(4)>> ELSE <<>>

\* C38: read refuses a bad header before it asks for the body. When it raises
\* the ProtocolError "incorrect masking" it has asked the reader for the 2
\* header bytes and nothing else; when it raises PayloadTooBig it has asked
\* for the 2 header bytes and then for the 0, 2 or 8 bytes of the extended
\* length and nothing else, so neither for the mask key nor for the payload;
\* when it returns a frame its requests are, in this order, 2, the extended
\* length if any, 4 if the frame is masked, and the declared payload length.
C38_ReaderRequests ==
    (rd.called /\ rd.done) =>
        /\ rd.result.msg = "incorrect masking" =>
              /\ rd.result.asked = <<Num(2)>>
              /\ rd.result.nread = 2
        /\ rd.result.out = "PayloadTooBig" =>
              /\ rd.result.asked = <<Num(2)>> \o ExtendedLengthAsked
              /\ rd.result.nread = 2 + (IF Len7 = 126 THEN 2 ELSE IF Len7 = 127 THEN 8 ELSE 0)
        /\ rd.result.out = "Frame" =>
              /\ rd.result.asked = <<Num(2)>> \o ExtendedLengthAsked \o MaskKeyAsked
                                      \o <<DeclaredLength>>
              /\ rd.result.nread = 2 + (IF Len7 = 126 THEN 2 ELSE IF Len7 = 127 THEN 8 ELSE 0)
                                     + KeyLen + Len(rd.result.frame.data)

\* a masked frame over the limit, with its 2-byte length, its mask key and
\* payload bytes in the stream, was refused after two requests
C38_Witness ==
    /\ HeaderRead /\ rd.mask
    /\ Len7 = 126
    /\ Len(rd.stream) >= 9
    /\ rd.result.out = "PayloadTooBig"
    /\ rd.result.asked = <<Num(2), Num(2)>>

\* a masked frame with a 2-byte length was returned after four requests
C38_WitnessFrame ==
    /\ HeaderRead /\ rd.mask
    /\ Len7 = 126
    /\ rd.result.out = "Frame"
    /\ Len(rd.result.asked) = 4

\* Claims about the choice among subprotocols of equal priority

\* C39 as claimed: without a selector, select_subprotocol is a function of
\* the two lists: the subprotocol a call has returned is the only one that
\* a call with the same client list and the same server list can return, also
\* when several shared subprotocols have the same index sum.
C39_Deterministic ==
    (sub.called /\ sub.done /\ sub.selector = "None") =>
        select_subprotocol("None", sub.client, sub.server) = {sub.result}

\* Claims about the return of the client's handshake

\* handshake returns or raises once the response was received
HandshakeEnds == cli.at = "wait" /\ cli.response_rcvd /\ cli'.at # "wait"

\* C40 as claimed: handshake returns normally only if the state of the
\* connection is OPEN. The first event processed is recorded as the response,
\* once, and is never forwarded to the processing of frames; whenever the
\* state is not OPEN once the response has been received, the socket is
\* closed by tcp_close and handshake raises instead of returning.
C40_ReturnsOnlyWhenOpen ==
    /\ [](cli.at # "not called" =>
            /\ Len(cli.recorded) <= 1
            /\ \A i \in 1..Len(cli.forwarded) : cli.forwarded[i] \notin Responses
            /\ cli.response # "None" => cli.recorded = <<cli.response>>)
    /\ [][HandshakeEnds =>
            /\ cli'.at = "returned" => cli.state = "OPEN"
            /\ cli.state # "OPEN" =>
                  /\ cli'.sock = "closed"
                  /\ cli'.tcp_closes = cli.tcp_closes + 1
                  /\ cli'.at = "raised"]_vars

====
